---------------------------- MODULE Spec2Model ----------------------------
(***************************************************************************)
(* A model of the settings wizard of create-typescript-thing               *)
(* (src/src/index.ts): the startup fan-out, the forced steps, the review   *)
(* hub and the step functions it dispatches to.                            *)
(*                                                                         *)
(* Strings are sequences of lexemes: a word ("pkg", "alice") or a single   *)
(* separator ("/", ".", "-", "_", ":", "@", " ").  ".git", "github.com"    *)
(* and "gitlab.com" are kept as one lexeme each; no word of the model      *)
(* starts with "http", "git@" or "ssh", so a prefix test is a test of the  *)
(* first lexemes.  Absolute paths are sequences of components.  An absent  *)
(* (undefined) value is None, which is no string of the model; an absent   *)
(* gitAccount is NoAccount, an absent explicitPath (only ever tested for   *)
(* truth) is FALSE, and a confidence is held in tenths (10 for 1, 5 for    *)
(* 0.5).  A process that has ended holds no settings any more: its memory  *)
(* is reset, what it did outside (remotes, calls, generator runs) stays.   *)
(***************************************************************************)
EXTENDS Integers, Sequences, FiniteSets, TLC

None == <<"?">>

\* JavaScript truthiness of an optional string: neither undefined nor "".
IsSet(x) == x # None /\ x # <<>>

----------------------------------------------------------------------------
(* Strings *)

Lower(t) == IF t = "Pkg" THEN "pkg" ELSE t

toLowerCase(str) == [i \in 1..Len(str) |-> Lower(str[i])]

RECURSIVE SplitAcc(_, _, _)
SplitAcc(str, sep, cur) ==
    IF str = <<>> THEN <<cur>>
    ELSE IF Head(str) = sep THEN <<cur>> \o SplitAcc(Tail(str), sep, <<>>)
    ELSE SplitAcc(Tail(str), sep, Append(cur, Head(str)))

\* String.prototype.split(sep): "" splits into [""].
Split(str, sep) == SplitAcc(str, sep, <<>>)

RECURSIVE JoinStr(_, _)
JoinStr(parts, sep) ==
    IF parts = <<>> THEN <<>>
    ELSE IF Len(parts) = 1 THEN parts[1]
    ELSE parts[1] \o <<sep>> \o JoinStr(Tail(parts), sep)

RECURSIVE TrimLeft(_)
TrimLeft(str) ==
    IF str # <<>> /\ Head(str) = " " THEN TrimLeft(Tail(str)) ELSE str

RECURSIVE TrimRight(_)
TrimRight(str) ==
    IF str # <<>> /\ str[Len(str)] = " "
    THEN TrimRight(SubSeq(str, 1, Len(str) - 1)) ELSE str

Trim(str) == TrimRight(TrimLeft(str))

Last(seq) == seq[Len(seq)]

normalizeString(str) ==
    LET lowered  == toLowerCase(str)
        dashed   == [i \in 1..Len(lowered) |->
                       IF lowered[i] \in {"-", "_", ".", ":"} THEN "-" ELSE lowered[i]]
        lastPart == Last(Split(Trim(dashed), "/"))
    IN  Split(lastPart, "@")[1]

----------------------------------------------------------------------------
(* Paths (node's posix path module) *)

Dot == <<".">>
DotDot == <<".", ".">>

RECURSIVE NormalizeSegs(_, _, _)
NormalizeSegs(segs, allowAboveRoot, acc) ==
    IF segs = <<>> THEN acc
    ELSE LET seg == Head(segs) IN
         IF seg = <<>> \/ seg = Dot
         THEN NormalizeSegs(Tail(segs), allowAboveRoot, acc)
         ELSE IF seg = DotDot
         THEN IF acc # <<>> /\ Last(acc) # DotDot
              THEN NormalizeSegs(Tail(segs), allowAboveRoot, SubSeq(acc, 1, Len(acc) - 1))
              ELSE IF allowAboveRoot
              THEN NormalizeSegs(Tail(segs), allowAboveRoot, Append(acc, seg))
              ELSE NormalizeSegs(Tail(segs), allowAboveRoot, acc)
         ELSE NormalizeSegs(Tail(segs), allowAboveRoot, Append(acc, seg))

IsAbsolute(str) == str # <<>> /\ Head(str) = "/"

\* path.normalize on a string.
PathNormalize(str) ==
    IF str = <<>> THEN Dot
    ELSE LET abs      == IsAbsolute(str)
             trailing == Last(str) = "/"
             body     == JoinStr(NormalizeSegs(Split(str, "/"), ~abs, <<>>), "/")
             body2    == IF body = <<>> /\ ~abs THEN Dot ELSE body
             body3    == IF body2 # <<>> /\ trailing THEN body2 \o <<"/">> ELSE body2
         IN  IF abs THEN <<"/">> \o body3 ELSE body3

\* path.resolve(base, str): base is an absolute path given by its components.
PathResolve(base, str) ==
    IF IsAbsolute(str) THEN NormalizeSegs(Split(str, "/"), FALSE, <<>>)
    ELSE NormalizeSegs(base \o Split(str, "/"), FALSE, <<>>)

\* path.basename of an absolute path given by its components.
AbsBasename(abs) == IF abs = <<>> THEN <<>> ELSE Last(abs)

RECURSIVE StripTrailingSlashes(_)
StripTrailingSlashes(str) ==
    IF str # <<>> /\ Last(str) = "/"
    THEN StripTrailingSlashes(SubSeq(str, 1, Len(str) - 1)) ELSE str

\* path.basename on a string: the last portion, trailing separators ignored.
PathBasename(str) == Last(Split(StripTrailingSlashes(str), "/"))

\* path.dirname of an absolute path; the root is its own parent.
AbsDirname(abs) == IF abs = <<>> THEN <<>> ELSE SubSeq(abs, 1, Len(abs) - 1)

IsPrefix(a, b) == Len(a) <= Len(b) /\ SubSeq(b, 1, Len(a)) = a

----------------------------------------------------------------------------
(* The environment the wizard runs in *)

\* process.cwd(): the directory the wizard is started in, /home/proj.
InvokeDirectory == << <<"home">>, <<"proj">> >>

\* The directories that exist on disk; /home/proj/old holds a package.json.
ExistingDirs == { <<>>, << <<"home">> >>, InvokeDirectory, Append(InvokeDirectory, <<"old">>) }
PackageDirs == { Append(InvokeDirectory, <<"old">>) }

GithubUrl(user, name) == <<"git", "@", "github.com", ":">> \o user \o <<"/">> \o name \o <<".git">>

\* Where the enclosing git repository is rooted (None: no repository) and what
\* `git remote get-url origin` reports there (None: the command fails).
NoGit == [gitRoot |-> None, origin |-> None]
GitRoot == [gitRoot |-> InvokeDirectory, origin |-> GithubUrl(<<"alice">>, <<"proj">>)]
InMonorepo == [gitRoot |-> << <<"home">> >>, origin |-> <<"/", "srv", "/", "mono", ".git">>]

existsSync(abs) == abs \in ExistingDirs

----------------------------------------------------------------------------
(* validate-npm-package-name, as far as validForNewPackages goes *)

UrlSafe(str) == \A i \in 1..Len(str) : str[i] \notin {"/", ":", "@", " "}

ScopedName(str) ==
    /\ str # <<>> /\ Head(str) = "@"
    /\ LET parts == Split(Tail(str), "/")
       IN  /\ Len(parts) = 2
           /\ parts[1] # <<>> /\ parts[2] # <<>>
           /\ UrlSafe(parts[1]) /\ UrlSafe(parts[2])

validForNewPackages(str) ==
    /\ str # <<>>
    /\ Head(str) \notin {".", "_"}
    /\ Trim(str) = str
    /\ (UrlSafe(str) \/ ScopedName(str))
    /\ toLowerCase(str) = str

----------------------------------------------------------------------------
(* The settings record and the resolvers *)

NoPathInfos == [p \in {} |-> None]

\* gitAccount: undefined
NoAccount == [type |-> "none", username |-> <<>>, confidence |-> 0]

InitialSettings ==
    [ path |-> None, name |-> None, description |-> None, type |-> <<"library">>,
      monorepo |-> None, repo |-> None, branch |-> None,
      authorName |-> None, authorEmail |-> None,
      pathInfos |-> NoPathInfos,
      gitUsername |-> None, gitEmail |-> None, osUsername |-> None,
      gitAccount |-> NoAccount, explicitPath |-> FALSE,
      githubUsername |-> None, githubToken |-> None, gitProtocol |-> None,
      packageManager |-> None ]

\* a ?? b
Coalesce(a, b) == IF a # None THEN a ELSE b

\* getPathInfo(settings) is defined (truthy) exactly when HasPathInfo holds.
HasPathInfo(st) == IsSet(st.path) /\ st.path \in DOMAIN st.pathInfos

getPathInfo(st) == st.pathInfos[st.path]

\* An optional boolean is None, <<"true">> or <<"false">>.
Bool(b) == IF b THEN <<"true">> ELSE <<"false">>

RECURSIVE PathsUp(_)
PathsUp(abs) ==
    IF abs = <<>> THEN << <<>>, <<>> >>
    ELSE IF Len(abs) = 1 THEN << abs, <<>> >>
    ELSE <<abs>> \o PathsUp(AbsDirname(abs))

InGitTree(w, abs) == w.gitRoot # None /\ IsPrefix(w.gitRoot, abs)

ProbePath(w, path) ==
    LET targetPath == PathResolve(InvokeDirectory, path)
        pathsUp    == PathsUp(targetPath)
        firstIdx   == CHOOSE i \in 1..Len(pathsUp) :
                         /\ existsSync(pathsUp[i])
                         /\ \A j \in 1..(i - 1) : ~existsSync(pathsUp[j])
        firstExistingPathUp == pathsUp[firstIdx]
        pathExists == firstExistingPathUp = targetPath
        inGitTree  == InGitTree(w, firstExistingPathUp)
        gitOrigin  == IF inGitTree THEN w.origin ELSE None
        isGitRoot  == pathExists /\ w.gitRoot # None /\ firstExistingPathUp = w.gitRoot
    IN  [ pathExists |-> pathExists, firstExistingPathUp |-> firstExistingPathUp,
          isGitRoot |-> isGitRoot, inGitTree |-> inGitTree,
          absolutePath |-> targetPath, gitOrigin |-> gitOrigin ]

\* addPathInfo as it would be if it stored the new entry alone.
addPathInfoForgetting(st, w) ==
    IF ~IsSet(st.path) \/ st.path \in DOMAIN st.pathInfos THEN st
    ELSE LET info == ProbePath(w, st.path)
         IN  [st EXCEPT !.repo = Coalesce(st.repo, info.gitOrigin),
                        !.monorepo = Coalesce(st.monorepo, Bool(info.inGitTree /\ ~info.isGitRoot)),
                        !.pathInfos = (st.path :> info)]

addPathInfo(st, w) ==
    IF ~IsSet(st.path) \/ st.path \in DOMAIN st.pathInfos THEN st
    ELSE LET info == ProbePath(w, st.path)
         IN  [st EXCEPT !.repo = Coalesce(st.repo, info.gitOrigin),
                        !.monorepo = Coalesce(st.monorepo, Bool(info.inGitTree /\ ~info.isGitRoot)),
                        !.pathInfos = (st.path :> info) @@ st.pathInfos]

buildGitRepoUrl(type, username, name) ==
    <<"git", "@", IF type = "github" THEN "github.com" ELSE "gitlab.com", ":">>
        \o username \o <<"/">> \o name \o <<".git">>

\* The validate callback of selectOrigin's prompt.
validRepoInput(repo) ==
    \/ (repo # <<>> /\ Head(repo) \in {"http", "https"})
    \/ (Len(repo) >= 2 /\ repo[1] = "git" /\ repo[2] = "@")
    \/ (repo # <<>> /\ Head(repo) = "ssh")
    \/ repo = <<>>

----------------------------------------------------------------------------
(* Identity and account inference *)

\* What `git config` and the OS report on this host.
Host == [gitName |-> <<"alice">>, gitEmail |-> <<"alice", "@", "example.org">>, osUser |-> <<"al">>]

\* ~/.config/gh/hosts.yml: absent, or holding a signed-in account.
NoCredentials == [user |-> None, accessToken |-> None, protocol |-> None]
StoredCredentials == [user |-> <<"alice">>, accessToken |-> <<"tokA">>, protocol |-> None]

\* The hosts the wizard is started on.
Scenarios ==
    { [world |-> NoGit, credentials |-> NoCredentials],
      [world |-> NoGit, credentials |-> StoredCredentials],
      [world |-> GitRoot, credentials |-> StoredCredentials],
      [world |-> InMonorepo, credentials |-> NoCredentials] }

\* GET /user for a token: name and email of the account.
\* For the token <<"tokX">> the profile lacks a name or an email: getUserInfo
\* throws, and its caller sees no profile.
UserInfoOf(token) ==
    IF token = <<"tokX">> THEN [name |-> None, email |-> None]
    ELSE [name |-> <<"alice">>, email |-> <<"alice", "@", "example.org">>]

\* addAuthorInfo as it would be if an unreadable profile made it give up.
addAuthorInfoGivingUp(st, host, creds) ==
    IF creds.accessToken # None /\ UserInfoOf(creds.accessToken).name = None THEN st
    ELSE LET githubName == IF creds.accessToken # None THEN UserInfoOf(creds.accessToken).name
                           ELSE None
         IN  [st EXCEPT
                !.authorName = Coalesce(st.authorName, Coalesce(githubName,
                                  Coalesce(creds.user, Coalesce(host.gitName, host.osUser)))),
                !.authorEmail = Coalesce(st.authorEmail, host.gitEmail),
                !.gitUsername = Coalesce(githubName, Coalesce(creds.user, host.gitName)),
                !.gitEmail = host.gitEmail,
                !.osUsername = host.osUser,
                !.githubUsername = Coalesce(githubName, creds.user),
                !.githubToken = creds.accessToken,
                !.gitProtocol = Coalesce(creds.protocol, <<"ssh">>)]

addAuthorInfo(st, host, creds) ==
    LET githubName == IF creds.accessToken # None THEN UserInfoOf(creds.accessToken).name ELSE None
    IN  [st EXCEPT
           !.authorName = Coalesce(st.authorName, Coalesce(githubName,
                             Coalesce(creds.user, Coalesce(host.gitName, host.osUser)))),
           !.authorEmail = Coalesce(st.authorEmail, host.gitEmail),
           !.gitUsername = Coalesce(githubName, Coalesce(creds.user, host.gitName)),
           !.gitEmail = host.gitEmail,
           !.osUsername = host.osUser,
           !.githubUsername = Coalesce(githubName, creds.user),
           !.githubToken = creds.accessToken,
           !.gitProtocol = Coalesce(creds.protocol, <<"ssh">>)]

guessGitAccountUsernameFirst(st, byEmail, byUsername, byGitlab) ==
    IF IsSet(st.githubUsername)
    THEN [st EXCEPT !.gitAccount = [type |-> "github", username |-> st.githubUsername,
                                    confidence |-> IF IsSet(st.githubToken) THEN 10 ELSE 5]]
    ELSE IF IsSet(byUsername)
    THEN [st EXCEPT !.gitAccount = [type |-> "github", username |-> byUsername, confidence |-> 5],
                    !.githubUsername = byUsername,
                    !.githubToken = IF byUsername = st.githubUsername THEN st.githubToken ELSE None]
    ELSE IF IsSet(byEmail)
    THEN [st EXCEPT !.gitAccount = [type |-> "github", username |-> byEmail, confidence |-> 10],
                    !.githubUsername = byEmail,
                    !.githubToken = IF byEmail = st.githubUsername THEN st.githubToken ELSE None]
    ELSE IF IsSet(byGitlab)
    THEN [st EXCEPT !.gitAccount = [type |-> "gitlab", username |-> byGitlab, confidence |-> 5],
                    !.githubUsername = None,
                    !.githubToken = None]
    ELSE st

guessGitAccountKeepingGithubIdentity(st, byEmail, byUsername, byGitlab) ==
    IF IsSet(st.githubUsername)
    THEN [st EXCEPT !.gitAccount = [type |-> "github", username |-> st.githubUsername,
                                    confidence |-> IF IsSet(st.githubToken) THEN 10 ELSE 5]]
    ELSE IF IsSet(byEmail)
    THEN [st EXCEPT !.gitAccount = [type |-> "github", username |-> byEmail, confidence |-> 10],
                    !.githubUsername = byEmail,
                    !.githubToken = IF byEmail = st.githubUsername THEN st.githubToken ELSE None]
    ELSE IF IsSet(byUsername)
    THEN [st EXCEPT !.gitAccount = [type |-> "github", username |-> byUsername, confidence |-> 5],
                    !.githubUsername = byUsername,
                    !.githubToken = IF byUsername = st.githubUsername THEN st.githubToken ELSE None]
    ELSE IF IsSet(byGitlab)
    THEN [st EXCEPT !.gitAccount = [type |-> "gitlab", username |-> byGitlab, confidence |-> 5]]
    ELSE st

guessGitAccountKeepingToken(st, byEmail, byUsername, byGitlab) ==
    IF IsSet(st.githubUsername)
    THEN [st EXCEPT !.gitAccount = [type |-> "github", username |-> st.githubUsername,
                                    confidence |-> IF IsSet(st.githubToken) THEN 10 ELSE 5]]
    ELSE IF IsSet(byEmail)
    THEN [st EXCEPT !.gitAccount = [type |-> "github", username |-> byEmail, confidence |-> 10],
                    !.githubUsername = byEmail]
    ELSE IF IsSet(byUsername)
    THEN [st EXCEPT !.gitAccount = [type |-> "github", username |-> byUsername, confidence |-> 5],
                    !.githubUsername = byUsername]
    ELSE IF IsSet(byGitlab)
    THEN [st EXCEPT !.gitAccount = [type |-> "gitlab", username |-> byGitlab, confidence |-> 5],
                    !.githubUsername = None]
    ELSE st

\* byEmail, byUsername, byGitlab: the first hit of each user search, or None.
guessGitAccount(st, byEmail, byUsername, byGitlab) ==
    IF IsSet(st.githubUsername)
    THEN [st EXCEPT !.gitAccount = [type |-> "github", username |-> st.githubUsername,
                                    confidence |-> IF IsSet(st.githubToken) THEN 10 ELSE 5]]
    ELSE IF IsSet(byEmail)
    THEN [st EXCEPT !.gitAccount = [type |-> "github", username |-> byEmail, confidence |-> 10],
                    !.githubUsername = byEmail,
                    !.githubToken = IF byEmail = st.githubUsername THEN st.githubToken ELSE None]
    ELSE IF IsSet(byUsername)
    THEN [st EXCEPT !.gitAccount = [type |-> "github", username |-> byUsername, confidence |-> 5],
                    !.githubUsername = byUsername,
                    !.githubToken = IF byUsername = st.githubUsername THEN st.githubToken ELSE None]
    ELSE IF IsSet(byGitlab)
    THEN [st EXCEPT !.gitAccount = [type |-> "gitlab", username |-> byGitlab, confidence |-> 5],
                    !.githubUsername = None,
                    !.githubToken = None]
    ELSE st

----------------------------------------------------------------------------
(* Remote repositories *)

validateGitRepoAlways(url, rem) == TRUE

\* git ls-remote shows a HEAD exactly for the remotes that exist.
validateGitRepo(url, rem) == url \in rem

\* The names of alice's GitHub repositories, as GET /user/repos lists them.
RepoNames == << <<"proj">>, <<"pkg">> >>

UserRepos(rem) ==
    SelectSeq([i \in 1..Len(RepoNames) |->
                 [name |-> RepoNames[i], fullName |-> <<"alice", "/">> \o RepoNames[i]]],
              LAMBDA r : GithubUrl(<<"alice">>, r.name) \in rem)

NonAlnum == {"/", ".", "-", "_", ":", "@", " "}

StripNonAlnum(str) == SelectSeq(toLowerCase(str), LAMBDA c : c \notin NonAlnum)

Includes(str, sub) ==
    \E i \in 1..(Len(str) + 1) :
        i + Len(sub) - 1 <= Len(str) /\ SubSeq(str, i, i + Len(sub) - 1) = sub

trashSearchFirstMatch(needle, haystack) ==
    LET matches  == {i \in 1..Len(haystack) :
                        Includes(StripNonAlnum(haystack[i]), StripNonAlnum(needle))}
    IN  IF matches = {} THEN None
        ELSE haystack[CHOOSE i \in matches : \A j \in matches : i <= j]

trashSearch(needle, haystack) ==
    LET haystackLower == [i \in 1..Len(haystack) |-> StripNonAlnum(haystack[i])]
        needleLower   == StripNonAlnum(needle)
        matches       == {i \in 1..Len(haystack) : Includes(haystackLower[i], needleLower)}
        First(S)      == CHOOSE i \in S : \A j \in S : i <= j
        verbatim      == {i \in matches : haystack[i] = needle}
        normalized    == {i \in matches : haystackLower[i] = needleLower}
    IN  IF matches = {} THEN None
        ELSE IF verbatim # {} THEN haystack[First(verbatim)]
        ELSE IF normalized # {} THEN haystack[First(normalized)]
        ELSE haystack[First(matches)]

\* The fullName of the repository found, or None.
findGithubRepo(name, rem) ==
    LET repos        == UserRepos(rem)
        names        == [i \in 1..Len(repos) |-> repos[i].name]
        searchResult == trashSearch(name, names)
    IN  IF ~IsSet(searchResult) THEN None
        ELSE repos[CHOOSE i \in 1..Len(repos) :
                      /\ repos[i].name = searchResult
                      /\ \A j \in 1..(i - 1) : repos[j].name # searchResult].fullName

getDefaultBranch(name, rem) ==
    IF \E i \in 1..Len(UserRepos(rem)) : UserRepos(rem)[i].name = name THEN <<"main">> ELSE None

DefaultBranch(st, rem) ==
    IF IsSet(st.branch) THEN st.branch
    ELSE IF st.gitAccount.type = "github" /\ IsSet(st.githubToken) /\ IsSet(st.name)
    THEN getDefaultBranch(st.name, rem)
    ELSE None

\* addRepoUrl as it would be if only the built URL came with a branch.
addRepoUrlBranchOnlyWithBuiltUrl(st, rem) ==
    LET defaultBranch == DefaultBranch(st, rem)
        found == IF IsSet(st.githubToken) /\ IsSet(st.githubUsername) /\ IsSet(st.name)
                 THEN findGithubRepo(st.name, rem) ELSE None
    IN  IF HasPathInfo(st) /\ IsSet(getPathInfo(st).gitOrigin)
        THEN [st EXCEPT !.repo = Coalesce(st.repo, getPathInfo(st).gitOrigin)]
        ELSE IF found # None
        THEN [st EXCEPT !.repo = <<"git", "@", "github.com", ":">> \o found \o <<".git">>]
        ELSE IF IsSet(st.repo) \/ st.gitAccount = NoAccount \/ ~IsSet(st.name)
        THEN st
        ELSE LET repoUrl == buildGitRepoUrl(st.gitAccount.type, st.gitAccount.username, st.name)
             IN  IF ~validateGitRepo(repoUrl, rem) THEN st
                 ELSE [st EXCEPT !.repo = repoUrl, !.branch = defaultBranch]

addRepoUrl(st, rem) ==
    LET defaultBranch == DefaultBranch(st, rem)
        found == IF IsSet(st.githubToken) /\ IsSet(st.githubUsername) /\ IsSet(st.name)
                 THEN findGithubRepo(st.name, rem) ELSE None
    IN  IF HasPathInfo(st) /\ IsSet(getPathInfo(st).gitOrigin)
        THEN [st EXCEPT !.repo = Coalesce(st.repo, getPathInfo(st).gitOrigin),
                        !.branch = defaultBranch]
        ELSE IF found # None
        THEN [st EXCEPT !.repo = <<"git", "@", "github.com", ":">> \o found \o <<".git">>,
                        !.branch = defaultBranch]
        ELSE IF IsSet(st.repo) \/ st.gitAccount = NoAccount \/ ~IsSet(st.name)
        THEN [st EXCEPT !.branch = defaultBranch]
        ELSE LET repoUrl == buildGitRepoUrl(st.gitAccount.type, st.gitAccount.username, st.name)
             IN  IF ~validateGitRepo(repoUrl, rem) THEN st
                 ELSE [st EXCEPT !.repo = repoUrl, !.branch = defaultBranch]

----------------------------------------------------------------------------
(* What the user may answer at the prompts, and what the services answer *)

MaxEdits == 2

Xs(n) == [i \in 1..n |-> "x"]

HttpsUrl == <<"https", ":", "/", "/", "example.org", "/", "r", ".git">>

TypeInputs == { <<"library">>, <<"application">> }
NameInputs == { <<"pkg">>, <<"lib", "/", "pkg">>, <<"pkg", "/">>, <<"proj">>, <<"Pkg">> }
DescriptionInputs == { <<>>, Xs(9), Xs(10) }
PathInputs == { <<>>, <<".">>, <<".", "/", "sub">>, <<"old">> }
AuthorNameInputs == { <<>>, <<"bob">> }
AuthorEmailInputs == { <<>>, <<"bob", "@", "example.org">> }
RepoInputs == { <<>>, GithubUrl(<<"alice">>, <<"pkg">>), HttpsUrl, <<"ftp", ":", "/", "/", "example.org">> }
PackageManagerInputs == { <<"npm">>, <<"pnpm">>, <<"yarn">> }

\* The first hit of the GitHub searches by email and by username and of the
\* GitLab search by username.
EmailHits == {None}
UsernameHits == {None, <<"alice">>}
GitlabHits == {None}

\* What determinePackageManager finds.
DetectedPackageManagers == { <<"pnpm">> }

\* The remotes that exist when the wizard starts.
InitialRemotes == { GithubUrl(<<"alice">>, <<"proj">>), HttpsUrl, <<"/", "srv", "/", "mono", ".git">> }

----------------------------------------------------------------------------
(* The steps: each takes the settings and the prompt's answer *)

selectType(st, type) == [st EXCEPT !.type = type]

validName(name) == validForNewPackages(AbsBasename(PathResolve(InvokeDirectory, name)))

NewPathNeverDot(name) == normalizeString(name)

NewPath(name) ==
    IF normalizeString(AbsBasename(InvokeDirectory)) = normalizeString(name)
    THEN Dot ELSE normalizeString(name)

\* selectName as it would be if it derived the path from every new name.
selectNameDerivingPath(st, name, w) ==
    addPathInfo([st EXCEPT !.name = name, !.path = NewPath(name)], w)

selectName(st, name, w) ==
    addPathInfo([st EXCEPT !.name = name,
                           !.path = IF ~st.explicitPath THEN NewPath(name)
                                    ELSE IF IsSet(st.path) THEN st.path ELSE NewPath(name)], w)

checkPath(path) == PathResolve(InvokeDirectory, path) \notin PackageDirs

validPath(path) == IsSet(path) /\ checkPath(path)

selectPath(st, path, w) ==
    addPathInfo([st EXCEPT !.path = PathNormalize(path),
                           !.name = IF IsSet(st.name) THEN st.name
                                    ELSE normalizeString(PathBasename(PathNormalize(path))),
                           !.explicitPath = TRUE], w)

validDescriptionWithoutUpperLimit(description) ==
    Len(description) = 0 \/ ~(Len(description) < 10)

validDescription(description) ==
    Len(description) = 0 \/ ~(Len(description) < 10 \/ Len(description) > 500)

selectDescriptionDroppingRepo(st, description) ==
    [st EXCEPT !.description = description, !.repo = None]

selectDescription(st, description) == [st EXCEPT !.description = description]

selectAuthorName(st, authorName) ==
    [st EXCEPT !.authorName = IF IsSet(authorName) THEN authorName ELSE None]

selectAuthorEmail(st, authorEmail) ==
    [st EXCEPT !.authorName = IF IsSet(authorEmail) THEN authorEmail ELSE None]

selectPackageManager(st, packageManager) == [st EXCEPT !.packageManager = packageManager]

\* `${x}` of an optional string
Str(x) == IF x = None THEN <<"undefined">> ELSE x

RECURSIVE RemoveFirst(_, _)
RemoveFirst(str, lexeme) ==
    IF str = <<>> THEN <<>>
    ELSE IF Head(str) = lexeme THEN Tail(str)
    ELSE <<Head(str)>> \o RemoveFirst(Tail(str), lexeme)

\* result.repo?.split(":")?.[1]?.replace(".git", "").split("/")[1]
ParsedRepoName(repo) ==
    LET parts == Split(repo, ":")
    IN  IF Len(parts) < 2 THEN None
        ELSE LET segs == Split(RemoveFirst(parts[2], ".git"), "/")
             IN  IF Len(segs) < 2 THEN None ELSE segs[2]

OriginGithubUrl(st, repo) ==
    buildGitRepoUrl("github", IF IsSet(st.githubUsername) THEN st.githubUsername ELSE <<>>,
                    Str(ParsedRepoName(repo)))

\* selectOrigin offers to create the repository on GitHub.
OffersCreate(st, rem, repo) ==
    /\ ~(IsSet(repo) /\ validateGitRepo(repo, rem))
    /\ IsSet(st.githubToken)
    /\ OriginGithubUrl(st, repo) = repo

\* The record createGithubRepo is called with.
CreateCall(st, repo) ==
    [name |-> ParsedRepoName(repo),
     description |-> IF IsSet(st.description) THEN st.description ELSE <<>>]

\* selectOrigin, had it created the repository whenever it could offer to.
selectOriginCreatingUnasked(st, rem, repo, create, status) ==
    LET creates == OffersCreate(st, rem, repo)
        rem2    == IF creates /\ status = 201
                   THEN rem \cup {GithubUrl(UserInfoOf(st.githubToken).name, ParsedRepoName(repo))}
                   ELSE rem
        defaultBranch ==
            IF IsSet(st.branch) THEN st.branch
            ELSE IF IsSet(ParsedRepoName(repo)) /\ IsSet(st.githubToken)
                    /\ OriginGithubUrl(st, repo) = repo
            THEN getDefaultBranch(ParsedRepoName(repo), rem2)
            ELSE None
    IN  [st |-> [st EXCEPT !.repo = IF IsSet(repo) THEN repo ELSE None,
                           !.branch = defaultBranch],
         rem |-> rem2,
         calls |-> IF creates THEN {CreateCall(st, repo)} ELSE {},
         thrown |-> creates /\ status # 201]

\* create: the answer to "Do you want to create the repo on github?";
\* status: the status of POST /user/repos.  The result is the new settings,
\* the remotes afterwards, the createGithubRepo calls made and whether it threw.
selectOrigin(st, rem, repo, create, status) ==
    LET creates == OffersCreate(st, rem, repo) /\ create
        rem2    == IF creates /\ status = 201
                   THEN rem \cup {GithubUrl(UserInfoOf(st.githubToken).name, ParsedRepoName(repo))}
                   ELSE rem
        defaultBranch ==
            IF IsSet(st.branch) THEN st.branch
            ELSE IF IsSet(ParsedRepoName(repo)) /\ IsSet(st.githubToken)
                    /\ OriginGithubUrl(st, repo) = repo
            THEN getDefaultBranch(ParsedRepoName(repo), rem2)
            ELSE None
    IN  [st |-> [st EXCEPT !.repo = IF IsSet(repo) THEN repo ELSE None,
                           !.branch = defaultBranch],
         rem |-> rem2,
         calls |-> IF creates THEN {CreateCall(st, repo)} ELSE {},
         thrown |-> creates /\ status # 201]

\* `git remote get-url origin` at the path's first existing ancestor, "" on failure.
ParsedOrigin(st, w) ==
    IF InGitTree(w, getPathInfo(st).firstExistingPathUp) /\ w.origin # None
    THEN w.origin ELSE <<>>

MonorepoSettings(st, w, monorepo) ==
    LET pathInfo     == getPathInfo(st)
        parsedOrigin == ParsedOrigin(st, w)
        wasMonorepo  == /\ ~monorepo
                        /\ pathInfo.firstExistingPathUp # pathInfo.absolutePath
                        /\ pathInfo.gitOrigin = parsedOrigin
        newRepo      == IF monorepo /\ IsSet(parsedOrigin) /\ ~IsSet(st.repo) THEN parsedOrigin
                        ELSE IF wasMonorepo THEN None ELSE st.repo
    IN  [st EXCEPT !.monorepo = Bool(monorepo), !.repo = newRepo]

\* selectMonorepo goes on to selectOrigin when the repo got unset.
AsksOrigin(st, w, monorepo) ==
    MonorepoSettings(st, w, monorepo).repo = None /\ st.repo # None

selectMonorepo(st, w, rem, monorepo, repo, create, status) ==
    IF AsksOrigin(st, w, monorepo)
    THEN selectOrigin(MonorepoSettings(st, w, monorepo), rem, repo, create, status)
    ELSE [st |-> MonorepoSettings(st, w, monorepo), rem |-> rem, calls |-> {}, thrown |-> FALSE]

----------------------------------------------------------------------------
(* The review hub *)

awaitWithTimeout(value, timedOut, defaultValue) == IF timedOut THEN defaultValue ELSE value

\* The missing keys as they would be without the liveness probe.
MissingKeysWithoutProbe(st, shortTimeoutRepoExists) ==
    (IF IsSet(st.type) THEN <<>> ELSE <<"type">>)
    \o (IF IsSet(st.name) THEN <<>> ELSE <<"name">>)
    \o (IF IsSet(st.path) THEN <<>> ELSE <<"path">>)

MissingKeys(st, shortTimeoutRepoExists) ==
    (IF IsSet(st.type) THEN <<>> ELSE <<"type">>)
    \o (IF IsSet(st.name) THEN <<>> ELSE <<"name">>)
    \o (IF IsSet(st.path) THEN <<>> ELSE <<"path">>)
    \o (IF IsSet(st.repo) /\ ~shortTimeoutRepoExists THEN <<"repo">> ELSE <<>>)

\* What reviewSettings computes before it shows its menu.
HubView(st, rem, timedOut) ==
    LET repoExists == IF IsSet(st.repo) THEN validateGitRepo(st.repo, rem) ELSE TRUE
        shortTimeoutRepoExists == awaitWithTimeout(repoExists, timedOut, TRUE)
    IN  [repoExists |-> repoExists,
         shortTimeoutRepoExists |-> shortTimeoutRepoExists,
         createDisabled |-> Len(MissingKeys(st, shortTimeoutRepoExists)) > 0]

\* The 100 ms timer can only win against a probe that was started.
HubViews(st, rem) ==
    { HubView(st, rem, timedOut) : timedOut \in IF IsSet(st.repo) THEN BOOLEAN ELSE {FALSE} }

\* "create" as it would be if it returned the settings whatever the probe says.
CreateReturnsAlways(st, view) == TRUE

\* "create": reviewSettings returns the settings unless the probe, awaited
\* to its end, says the repo does not exist.
CreateReturns(st, view) == ~(IsSet(st.repo) /\ ~view.repoExists)

----------------------------------------------------------------------------
(* The wizard *)

VARIABLES
    world,                   \* the git repository around the invoke directory
    credentials,             \* the GitHub CLI credentials file
    remotes,                 \* the remote repositories that exist
    authorSettings,          \* the three promises of the startup fan-out
    s1,
    packageManagerSettings,
    pc,                      \* where the main function stands
    s,                       \* the settings record main holds
    hub,                     \* what reviewSettings computed when it was entered
    steps,                   \* the steps main has run, in order
    last,                    \* the last prompt answered: selection, answer, steps run
    edits,                   \* edit actions taken in the review hub
    exit,                    \* "running", or how the process ended
    cancelPressed,           \* the user has cancelled a prompt
    createCalls,             \* the createGithubRepo calls made
    generated                \* the options of each createTypescriptThing call

\* The modules the wizard calls, each modelled on its own further down; the
\* wizard takes their answers from UserInfoOf, UserRepos and DeviceFlowToken
\* and leaves their state alone.
VARIABLES
    poll,                    \* fetchToken: its interval, requests, waits and outcome
    userInfoByToken,         \* createGithubRepo.ts: the promise cached for each token
    reposByName,             \* createGithubRepo.ts: the promise cached for each user name
    repoPromises,            \* the promises getUserRepos has created, evicted ones too
    requests,                \* the HTTP requests sent to api.github.com
    callers,                 \* the calls of getUserInfo, getUserRepos, createGithubRepo
    search                   \* trashSearch: its arguments and what it returned

NoPoll == [pc |-> "idle", interval |-> 0, first |-> 0, waiting |-> 0, requests |-> 0,
           waits |-> <<>>, responses |-> <<>>, accessToken |-> None, message |-> ""]

MaxCallers == 3
Callers == 1..MaxCallers
ServiceTokens == { <<"tokA">>, <<"tokB">>, <<"tokX">> }
UserNames == { <<"alice">> }

NoUserInfo == [name |-> None, email |-> None]
NoPromise == [state |-> "none", value |-> NoUserInfo]
NoCall == [fn |-> "", accessToken |-> None, name |-> None, pc |-> "idle", posted |-> FALSE,
           awaits |-> 0, userInfo |-> NoUserInfo, repos |-> <<>>, message |-> ""]

caches == <<userInfoByToken, reposByName, repoPromises, requests, callers>>
CachesEmpty ==
    /\ userInfoByToken = [token \in ServiceTokens |-> NoPromise]
    /\ reposByName = [name \in UserNames |-> 0]
    /\ repoPromises = <<>>
    /\ requests = <<>>
    /\ callers = [c \in Callers |-> NoCall]

NoSearch == [needle |-> <<>>, haystack |-> <<>>, returned |-> FALSE, result |-> None]

services == <<poll, caches, search>>
ServicesIdle == poll = NoPoll /\ CachesEmpty /\ search = NoSearch

vars == <<world, credentials, remotes, authorSettings, s1, packageManagerSettings,
          pc, s, hub, steps, last, edits, exit, cancelPressed, createCalls, generated,
          services>>

env == <<world, credentials, services>>
fanOut == <<authorSettings, s1, packageManagerSettings>>

NoView == [repoExists |-> TRUE, shortTimeoutRepoExists |-> TRUE, createDisabled |-> TRUE]
NoAnswer == [sel |-> "", answer |-> <<>>, ran |-> <<>>]

Init ==
    /\ \E scenario \in Scenarios :
          world = scenario.world /\ credentials = scenario.credentials
    /\ remotes = InitialRemotes
    /\ authorSettings = [stage |-> "pending", st |-> InitialSettings]
    /\ s1 = [done |-> FALSE, st |-> InitialSettings]
    /\ packageManagerSettings = [done |-> FALSE, packageManager |-> None]
    /\ pc = "start"
    /\ s = InitialSettings
    /\ hub = NoView
    /\ steps = <<>>
    /\ last = NoAnswer
    /\ edits = 0
    /\ exit = "running"
    /\ cancelPressed = FALSE
    /\ createCalls = {}
    /\ generated = <<>>
    /\ ServicesIdle

Running == exit = "running"

\* The process ends: what it held in memory is gone, what it did outside stays.
End(status) ==
    /\ exit' = status
    /\ pc' = "exited"
    /\ authorSettings' = [stage |-> "pending", st |-> InitialSettings]
    /\ s1' = [done |-> FALSE, st |-> InitialSettings]
    /\ packageManagerSettings' = [done |-> FALSE, packageManager |-> None]
    /\ s' = InitialSettings
    /\ hub' = NoView
    /\ steps' = <<>>
    /\ last' = NoAnswer
    /\ edits' = 0

(* The startup fan-out: three promises, joined by Promise.all *)

AddAuthorInfo ==
    /\ Running /\ pc = "start" /\ authorSettings.stage = "pending"
    /\ authorSettings' = [stage |-> "inferred",
                          st |-> addAuthorInfo(InitialSettings, Host, credentials)]
    /\ UNCHANGED <<env, remotes, s1, packageManagerSettings, pc, s, hub, steps, last,
                   edits, exit, cancelPressed, createCalls, generated>>

GuessGitAccount ==
    /\ Running /\ pc = "start" /\ authorSettings.stage = "inferred"
    /\ \E byEmail \in EmailHits, byUsername \in UsernameHits, byGitlab \in GitlabHits :
          authorSettings' = [stage |-> "done",
                             st |-> guessGitAccount(authorSettings.st, byEmail, byUsername, byGitlab)]
    /\ UNCHANGED <<env, remotes, s1, packageManagerSettings, pc, s, hub, steps, last,
                   edits, exit, cancelPressed, createCalls, generated>>

DeterminePackageManager ==
    /\ Running /\ pc = "start" /\ ~packageManagerSettings.done
    /\ \E packageManager \in DetectedPackageManagers :
          packageManagerSettings' = [done |-> TRUE, packageManager |-> packageManager]
    /\ UNCHANGED <<env, remotes, authorSettings, s1, pc, s, hub, steps, last,
                   edits, exit, cancelPressed, createCalls, generated>>

FirstSelectType ==
    /\ Running /\ pc = "start" /\ ~s1.done
    /\ \E type \in TypeInputs :
          /\ s1' = [done |-> TRUE, st |-> selectType(InitialSettings, type)]
          /\ last' = [sel |-> "", answer |-> type, ran |-> <<"selectType">>]
    /\ steps' = Append(steps, "selectType")
    /\ UNCHANGED <<env, remotes, authorSettings, packageManagerSettings, pc, s, hub,
                   edits, exit, cancelPressed, createCalls, generated>>

JoinedWithoutPromptedType(author, typed, packageManager) ==
    [author EXCEPT !.packageManager = packageManager]

\* { ...initialSettings[0], type: initialSettings[1].type, ...initialSettings[2] }
Joined(author, typed, packageManager) ==
    [author EXCEPT !.type = typed.type, !.packageManager = packageManager]

Join ==
    /\ Running /\ pc = "start"
    /\ authorSettings.stage = "done" /\ s1.done /\ packageManagerSettings.done
    /\ s' = Joined(authorSettings.st, s1.st, packageManagerSettings.packageManager)
    /\ pc' = "name"
    /\ UNCHANGED <<env, remotes, fanOut, hub, steps, last, edits, exit, cancelPressed,
                   createCalls, generated>>

(* The forced steps of main *)

ForcedSelectName ==
    /\ Running /\ pc = "name"
    /\ \E name \in NameInputs :
          /\ validName(name)
          /\ s' = selectName(s, name, world)
          /\ last' = [sel |-> "", answer |-> name, ran |-> <<"selectName">>]
    /\ steps' = Append(steps, "selectName")
    /\ pc' = "description"
    /\ UNCHANGED <<env, remotes, fanOut, hub, edits, exit, cancelPressed, createCalls, generated>>

\* After the description main throws unless the name step left a PathInfo.
ForcedSelectDescription ==
    /\ Running /\ pc = "description"
    /\ \E description \in DescriptionInputs :
          /\ validDescription(description)
          /\ IF HasPathInfo(s)
             THEN /\ s' = selectDescription(s, description)
                  /\ last' = [sel |-> "", answer |-> description,
                              ran |-> <<"selectDescription">>]
                  /\ steps' = Append(steps, "selectDescription")
                  /\ pc' = "account"
                  /\ UNCHANGED <<fanOut, hub, edits, exit>>
             ELSE End("crashed")
    /\ UNCHANGED <<env, remotes, cancelPressed, createCalls, generated>>

\* The sign-in step as it would be if main ran it whatever the token.
NeedsGithubAccountAlways(st) == TRUE

\* s200.githubToken ? s200 : await selectGithubAccount(s200)
NeedsGithubAccount(st) == ~IsSet(st.githubToken)

\* s21.repo ? s21 : await selectOrigin(s21)
NeedsOrigin(st) == ~IsSet(st.repo)

SkipGithubAccount ==
    /\ Running /\ pc = "account"
    /\ ~NeedsGithubAccount(s)
    /\ pc' = "repoUrl"
    /\ UNCHANGED <<env, remotes, fanOut, s, hub, steps, last, edits, exit, cancelPressed,
                   createCalls, generated>>

\* selectGithubAccount up to its confirm prompt; "yes" starts the device flow.
ForcedSelectGithubAccount ==
    /\ Running /\ pc = "account"
    /\ NeedsGithubAccount(s)
    /\ \E login \in BOOLEAN :
          /\ pc' = IF login THEN "deviceFlow" ELSE "repoUrl"
          /\ last' = [sel |-> "", answer |-> Bool(login), ran |-> <<"selectGithubAccount">>]
    /\ steps' = Append(steps, "selectGithubAccount")
    /\ UNCHANGED <<env, remotes, fanOut, s, hub, edits, exit, cancelPressed, createCalls, generated>>

\* The settings selectGithubAccount returns once the device flow gave a token.
SignedIn(st, rem, accessToken) ==
    LET validRepoUrl == IF IsSet(st.repo) THEN validateGitRepo(st.repo, rem) ELSE FALSE
        newSettings  == [st EXCEPT
                           !.gitAccount = [type |-> "github",
                                           username |-> UserInfoOf(accessToken).name,
                                           confidence |-> 10],
                           !.githubToken = accessToken,
                           !.githubUsername = UserInfoOf(accessToken).name]
    IN  IF validRepoUrl THEN newSettings ELSE addRepoUrl(newSettings, rem)

DeviceFlowToken ==
    /\ Running /\ pc = "deviceFlow"
    /\ s' = SignedIn(s, remotes, <<"tokB">>)
    /\ pc' = "repoUrl"
    /\ UNCHANGED <<env, remotes, fanOut, hub, steps, last, edits, exit, cancelPressed,
                   createCalls, generated>>

\* The token endpoint answers with an error: fetchToken throws.
DeviceFlowError ==
    /\ Running /\ pc = "deviceFlow"
    /\ End("failed")
    /\ UNCHANGED <<env, remotes, cancelPressed, createCalls, generated>>

\* Ctrl+C at createGithubAccessToken's readline question: no handler is
\* registered there, the interface pauses and the polling goes on.
DeviceFlowCancel ==
    /\ Running /\ pc = "deviceFlow"
    /\ ~cancelPressed
    /\ cancelPressed' = TRUE
    /\ UNCHANGED <<env, remotes, fanOut, pc, s, hub, steps, last, edits, exit,
                   createCalls, generated>>

EnterHub(st, rem) == pc' = "review" /\ hub' \in HubViews(st, rem)

ForcedAddRepoUrl ==
    /\ Running /\ pc = "repoUrl"
    /\ s' = addRepoUrl(s, remotes)
    /\ steps' = Append(steps, "addRepoUrl")
    /\ pc' = "origin"
    /\ UNCHANGED <<env, remotes, fanOut, hub, last, edits, exit, cancelPressed,
                   createCalls, generated>>

SkipSelectOrigin ==
    /\ Running /\ pc = "origin"
    /\ ~NeedsOrigin(s)
    /\ EnterHub(s, remotes)
    /\ UNCHANGED <<env, remotes, fanOut, s, steps, last, edits, exit, cancelPressed,
                   createCalls, generated>>

\* A step that may create a repository: its settings, remotes and calls, and
\* what follows it unless createGithubRepo threw.
Finish(out, continue) ==
    /\ remotes' = out.rem
    /\ createCalls' = createCalls \cup out.calls
    /\ IF out.thrown
       THEN End("failed")
       ELSE s' = out.st /\ continue /\ UNCHANGED <<fanOut, exit>>

ForcedSelectOrigin ==
    /\ Running /\ pc = "origin"
    /\ NeedsOrigin(s)
    /\ \E repo \in RepoInputs :
          /\ validRepoInput(repo)
          /\ \E create \in IF OffersCreate(s, remotes, repo) THEN BOOLEAN ELSE {FALSE},
                status \in IF OffersCreate(s, remotes, repo) THEN {201, 422} ELSE {201} :
                LET out == selectOrigin(s, remotes, repo, create, status)
                IN  Finish(out, /\ EnterHub(out.st, out.rem)
                                /\ last' = [sel |-> "", answer |-> repo,
                                            ran |-> <<"selectOrigin">>]
                                /\ steps' = Append(steps, "selectOrigin")
                                /\ edits' = edits)
    /\ UNCHANGED <<env, cancelPressed, generated>>

(* The review hub: one action for each selection of the menu *)

InHub == Running /\ pc = "review"

\* The step of an edit action has run: its result goes into reviewSettings again.
Reenter(sel, answer, ran, st, rem) ==
    /\ edits' = edits + 1
    /\ last' = [sel |-> sel, answer |-> answer, ran |-> ran]
    /\ EnterHub(st, rem)
    /\ steps' = steps

Edit(sel, answer, ran, st) ==
    /\ edits < MaxEdits
    /\ s' = st
    /\ Reenter(sel, answer, ran, st, remotes)
    /\ UNCHANGED <<env, remotes, fanOut, exit, cancelPressed, createCalls, generated>>

OptionsWithoutOrigin(st) ==
    [path |-> IF IsSet(st.path) THEN st.path ELSE Dot,
     name |-> st.name,
     description |-> st.description,
     type |-> IF IsSet(st.type) THEN st.type ELSE <<"library">>,
     authorName |-> st.authorName,
     authorEmail |-> st.authorEmail,
     packageManager |-> st.packageManager,
     disableGitCommits |-> FALSE,
     disableGitRepo |-> st.monorepo,
     gitOrigin |-> None,
     gitBranch |-> st.branch]

\* The options main hands to createTypescriptThing.
Options(st) ==
    [path |-> IF IsSet(st.path) THEN st.path ELSE Dot,
     name |-> st.name,
     description |-> st.description,
     type |-> IF IsSet(st.type) THEN st.type ELSE <<"library">>,
     authorName |-> st.authorName,
     authorEmail |-> st.authorEmail,
     packageManager |-> st.packageManager,
     disableGitCommits |-> FALSE,
     disableGitRepo |-> st.monorepo,
     gitOrigin |-> st.repo,
     gitBranch |-> st.branch]

\* reviewSettings returned: main checks the name and calls the generator.
Generate ==
    IF IsSet(s.name)
    THEN /\ generated' = Append(generated, Options(s))
         /\ pc' = "done"
         /\ last' = [sel |-> "create", answer |-> <<>>, ran |-> <<>>]
         /\ UNCHANGED <<fanOut, s, hub, steps, edits, exit>>
    ELSE End("crashed") /\ UNCHANGED generated

ReviewCreate ==
    /\ InHub
    /\ ~hub.createDisabled
    /\ IF CreateReturns(s, hub)
       THEN Generate
       ELSE /\ EnterHub(s, remotes)
            /\ last' = [sel |-> "create", answer |-> <<>>, ran |-> <<>>]
            /\ UNCHANGED <<fanOut, s, steps, edits, exit, generated>>
    /\ UNCHANGED <<env, remotes, cancelPressed, createCalls>>

ReviewType ==
    /\ InHub
    /\ \E type \in TypeInputs :
          Edit("type", type, <<"selectType">>, selectType(s, type))

ReviewName ==
    /\ InHub
    /\ \E name \in NameInputs :
          /\ validName(name)
          /\ Edit("name", name, <<"selectName">>, selectName(s, name, world))

ReviewDescription ==
    /\ InHub
    /\ \E description \in DescriptionInputs :
          /\ validDescription(description)
          /\ Edit("description", description, <<"selectDescription">>,
                  selectDescription(s, description))

ReviewPath ==
    /\ InHub
    /\ \E path \in PathInputs :
          /\ validPath(path)
          /\ Edit("path", path, <<"selectPath">>, selectPath(s, path, world))

ReviewAuthorName ==
    /\ InHub
    /\ \E authorName \in AuthorNameInputs :
          Edit("authorName", authorName, <<"selectAuthorName">>, selectAuthorName(s, authorName))

ReviewAuthorEmail ==
    /\ InHub
    /\ \E authorEmail \in AuthorEmailInputs :
          Edit("authorEmail", authorEmail, <<"selectAuthorEmail">>,
               selectAuthorEmail(s, authorEmail))

ReviewPackageManager ==
    /\ InHub
    /\ \E packageManager \in PackageManagerInputs :
          Edit("packageManager", packageManager, <<"selectPackageManager">>,
               selectPackageManager(s, packageManager))

ReviewRepo ==
    /\ InHub
    /\ edits < MaxEdits
    /\ \E repo \in RepoInputs :
          /\ validRepoInput(repo)
          /\ \E create \in IF OffersCreate(s, remotes, repo) THEN BOOLEAN ELSE {FALSE},
                status \in IF OffersCreate(s, remotes, repo) THEN {201, 422} ELSE {201} :
                LET out == selectOrigin(s, remotes, repo, create, status)
                IN  Finish(out, Reenter("repo", repo, <<"selectOrigin">>, out.st, out.rem))
    /\ UNCHANGED <<env, cancelPressed, generated>>

\* selectMonorepo throws when the settings hold no PathInfo for the path.
ReviewMonorepo ==
    /\ InHub
    /\ edits < MaxEdits
    /\ \E monorepo \in BOOLEAN :
          IF ~HasPathInfo(s)
          THEN End("crashed") /\ UNCHANGED <<remotes, createCalls>>
          ELSE IF ~AsksOrigin(s, world, monorepo)
          THEN LET out == selectMonorepo(s, world, remotes, monorepo, <<>>, FALSE, 201)
               IN  Finish(out, Reenter("monorepo", Bool(monorepo), <<"selectMonorepo">>,
                                       out.st, out.rem))
          ELSE \E repo \in RepoInputs :
                  /\ validRepoInput(repo)
                  /\ \E create \in IF OffersCreate(s, remotes, repo) THEN BOOLEAN ELSE {FALSE},
                        status \in IF OffersCreate(s, remotes, repo) THEN {201, 422} ELSE {201} :
                        LET out == selectMonorepo(s, world, remotes, monorepo, repo, create, status)
                        IN  Finish(out, Reenter("monorepo", Bool(monorepo),
                                                <<"selectMonorepo", "selectOrigin">>,
                                                out.st, out.rem))
    /\ UNCHANGED <<env, cancelPressed, generated>>

\* A prompt of the prompts library is open: the type prompt of the fan-out,
\* a forced step's prompt, the sign-in question or the hub's menu.
PromptOpen ==
    \/ pc = "start" /\ ~s1.done
    \/ pc \in {"name", "description", "review"}
    \/ pc = "account" /\ NeedsGithubAccount(s)
    \/ pc = "origin" /\ NeedsOrigin(s)

\* onCancel: exit(0)
Cancel ==
    /\ Running /\ PromptOpen
    /\ cancelPressed' = TRUE
    /\ End("cancelled")
    /\ UNCHANGED <<env, remotes, createCalls, generated>>

Next ==
    \/ AddAuthorInfo \/ GuessGitAccount \/ DeterminePackageManager \/ FirstSelectType \/ Join
    \/ ForcedSelectName \/ ForcedSelectDescription
    \/ SkipGithubAccount \/ ForcedSelectGithubAccount
    \/ DeviceFlowToken \/ DeviceFlowError \/ DeviceFlowCancel
    \/ ForcedAddRepoUrl \/ SkipSelectOrigin \/ ForcedSelectOrigin
    \/ ReviewCreate \/ ReviewType \/ ReviewName \/ ReviewDescription \/ ReviewPath
    \/ ReviewAuthorName \/ ReviewAuthorEmail \/ ReviewPackageManager
    \/ ReviewRepo \/ ReviewMonorepo
    \/ Cancel

Spec == Init /\ [][Next]_vars

----------------------------------------------------------------------------
(* The properties of the wizard *)

\* The settings record exists while the process runs.
Live == exit = "running"

EditSelections ==
    {"type", "name", "description", "path", "authorName", "authorEmail",
     "repo", "monorepo", "packageManager"}

\* The repo is set and the liveness check, awaited to its end, found no remote.
DeadRepo == IsSet(s.repo) /\ ~hub.repoExists

\* C1: reviewSettings never returns a record whose repo is set while the
\* liveness check, awaited to completion, said the remote does not exist:
\* "create" then re-enters the hub with the same settings, and the generator
\* is not called; otherwise "create" returns the record it was given.
CreateNeverReturnsDeadRepo ==
    [][ (pc = "review" /\ last'.sel = "create")
        => IF DeadRepo
           THEN pc' = "review" /\ s' = s /\ generated' = generated
           ELSE pc' = "done" /\ s' = s /\ generated' = <<Options(s)>> ]_vars

\* "create" was selected on a dead repo (the timer had won the race, so it
\* was enabled) and the hub was entered again.
CreateReenteredHub ==
    pc = "review" /\ last.sel = "create" /\ DeadRepo

\* C2: in every hub state "create" is enabled exactly when type, name and
\* path are set and the repo is unset or the probe raced against the timer
\* did not say "nonexistent"; the raced answer is "exists" whenever the probe
\* itself says so, and the probe says what the remotes are.  So it is
\* disabled whenever name is unset, and name is no missing key after a name
\* step.
CreateEnabledIff ==
    pc = "review" =>
        /\ ~hub.createDisabled <=>
              /\ IsSet(s.type) /\ IsSet(s.name) /\ IsSet(s.path)
              /\ (~IsSet(s.repo) \/ hub.shortTimeoutRepoExists)
        /\ hub.repoExists <=> (IsSet(s.repo) => validateGitRepo(s.repo, remotes))
        /\ hub.repoExists => hub.shortTimeoutRepoExists
        /\ ~IsSet(s.name) => hub.createDisabled
        /\ "selectName" \in {last.ran[i] : i \in 1..Len(last.ran)} => IsSet(s.name)

\* A hub entered right after a name step, with a dead repo and the timer
\* having won: "create" is enabled.
CreateEnabledOnTimeout ==
    /\ pc = "review" /\ last.ran = <<"selectName">>
    /\ DeadRepo /\ hub.shortTimeoutRepoExists /\ ~hub.createDisabled

\* What a hub selection makes of the settings, for the steps that ask one
\* question.
StepResult(sel, answer, st) ==
    CASE sel = "type"           -> selectType(st, answer)
      [] sel = "name"           -> selectName(st, answer, world)
      [] sel = "description"    -> selectDescription(st, answer)
      [] sel = "path"           -> selectPath(st, answer, world)
      [] sel = "authorName"     -> selectAuthorName(st, answer)
      [] sel = "authorEmail"    -> selectAuthorEmail(st, answer)
      [] sel = "packageManager" -> selectPackageManager(st, answer)

\* The results selectOrigin and selectMonorepo can give.
OriginResults(st, rem, repo) ==
    { selectOrigin(st, rem, repo, create, status).st :
         create \in BOOLEAN, status \in {201, 422} }

MonorepoResults(st, rem, monorepo) ==
    { selectMonorepo(st, world, rem, monorepo, repo, create, status).st :
         repo \in RepoInputs, create \in BOOLEAN, status \in {201, 422} }

\* C3: from the hub every edit selection runs its step once and enters the
\* hub again with the step's result, and "create" is the only selection
\* after which reviewSettings returns.  The process may instead end by a
\* cancelled prompt or by a failed request to GitHub.
EditReentersHub ==
    [][ (pc = "review" /\ Live)
        => \/ exit' \in {"cancelled", "failed"}
           \/ /\ last'.sel = "create"
              /\ pc' \in {"review", "done"}
           \/ /\ last'.sel \in EditSelections
              /\ pc' = "review" /\ Live'
              /\ edits' = edits + 1
              /\ CASE last'.sel = "repo" ->
                        /\ last'.ran = <<"selectOrigin">>
                        /\ s' \in OriginResults(s, remotes, last'.answer)
                   [] last'.sel = "monorepo" ->
                        /\ last'.ran \in {<<"selectMonorepo">>,
                                          <<"selectMonorepo", "selectOrigin">>}
                        /\ s' \in MonorepoResults(s, remotes, last'.answer = <<"true">>)
                   [] OTHER ->
                        /\ Len(last'.ran) = 1
                        /\ s' = StepResult(last'.sel, last'.answer, s) ]_vars

\* C4: the hub's authorEmail edit sets authorEmail to what the user entered
\* (unset when the input is empty) and leaves every other field, authorName
\* included, as it was.
AuthorEmailEditSetsAuthorEmail ==
    [][ (pc = "review" /\ last'.sel = "authorEmail")
        => s' = [s EXCEPT !.authorEmail =
                    IF IsSet(last'.answer) THEN last'.answer ELSE None] ]_vars

\* The order of the forced steps; the two optional ones may be absent.
ForcedOrder ==
    { <<"selectType", "selectName", "selectDescription">> \o account
         \o <<"addRepoUrl">> \o origin :
         account \in {<<>>, <<"selectGithubAccount">>},
         origin \in {<<>>, <<"selectOrigin">>} }

IsPrefixOfForcedOrder(ran) ==
    \E order \in ForcedOrder : Len(ran) <= Len(order) /\ SubSeq(order, 1, Len(ran)) = ran

\* The forced steps that have run when main stands at pc.
StepsBefore(at) ==
    CASE at = "start"       -> {<<>>, <<"selectType">>}
      [] at = "name"        -> {<<"selectType">>}
      [] at = "description" -> {<<"selectType", "selectName">>}
      [] at = "account"     -> {<<"selectType", "selectName", "selectDescription">>}
      [] at = "deviceFlow"  -> {<<"selectType", "selectName", "selectDescription",
                                  "selectGithubAccount">>}
      [] at = "repoUrl"     -> {<<"selectType", "selectName", "selectDescription">> \o account :
                                   account \in {<<>>, <<"selectGithubAccount">>}}
      [] at = "origin"      -> {order \in ForcedOrder : Last(order) = "addRepoUrl"}
      [] at \in {"review", "done"} -> ForcedOrder
      [] OTHER              -> {<<>>}

\* C5: before the hub is first entered the forced steps run once each in
\* the order type, name, description, GitHub account, repo-URL resolution,
\* manual origin; none starts before the one before it is over; the account
\* step runs exactly when no githubToken is there after the description
\* step, the origin step exactly when the repo is unset after the resolution.
ForcedStepsInOrder ==
    /\ [](steps \in StepsBefore(pc) /\ IsPrefixOfForcedOrder(steps))
    /\ [][ /\ (pc = "account" /\ Live' /\ pc' # pc)
              => (steps' = Append(steps, "selectGithubAccount") <=> ~IsSet(s.githubToken))
           /\ (pc = "origin" /\ Live' /\ pc' # pc)
              => (steps' = Append(steps, "selectOrigin") <=> ~IsSet(s.repo)) ]_vars

\* The hub is entered for the first time after all six forced steps.
AllForcedStepsRan ==
    /\ pc = "review" /\ edits = 0
    /\ steps = <<"selectType", "selectName", "selectDescription", "selectGithubAccount",
                 "addRepoUrl", "selectOrigin">>

\* C6: a cancelled prompt ends the process at once with exit status 0: no
\* later step runs, no record is returned, the generator is never called.
CancelEndsProcess ==
    cancelPressed => exit = "cancelled" /\ pc = "exited" /\ generated = <<>>

\* C7: once selectPath has set the path, explicitPath stays true and no step
\* but selectPath changes the path, however many names are selected later.
ExplicitPathKept ==
    [][ (s.explicitPath /\ Live')
        => /\ s'.explicitPath
           /\ s'.path # s.path => last'.ran = <<"selectPath">> ]_vars

\* A name was selected after an explicit path, and the path the name would
\* give is another one.
NameSelectedAfterExplicitPath ==
    /\ Live /\ s.explicitPath /\ last.ran = <<"selectName">>
    /\ NewPath(last.answer) # s.path

\* C8: in a monorepo the repo is unset or the origin of the git repository
\* that holds the path, never another remote.
MonorepoKeepsOrigin ==
    (Live /\ s.monorepo = <<"true">>)
        => \/ ~IsSet(s.repo)
           \/ HasPathInfo(s) /\ getPathInfo(s).gitOrigin = s.repo

\* C9: a non-empty repo passes the URL-shape validator of selectOrigin,
\* whichever step set it.
RepoHasUrlShape ==
    (Live /\ IsSet(s.repo)) => (s.repo # <<>> /\ validRepoInput(s.repo))

\* C10: a name that is set satisfies the package-name rules itself, not
\* only its path basename.
NameIsValidPackageName ==
    (Live /\ IsSet(s.name)) => validForNewPackages(s.name)

----------------------------------------------------------------------------
(* The wizard from its start to the first entry of the hub, on more hosts *)

\* ~/.config/gh/hosts.yml with a user and no token, and with a token whose
\* profile cannot be read and no user.
UserOnlyCredentials == [user |-> <<"alice">>, accessToken |-> None, protocol |-> None]
BrokenTokenCredentials == [user |-> None, accessToken |-> <<"tokX">>, protocol |-> None]

CredentialFiles ==
    {NoCredentials, StoredCredentials, UserOnlyCredentials, BrokenTokenCredentials}

StartupWorlds == {NoGit, InMonorepo}

\* The first hit of each user search, or None.
AllEmailHits == {None, <<"bob">>}
AllUsernameHits == {None, <<"alice">>}
AllGitlabHits == {None, <<"alice">>}

\* Descriptions at and around the limits of the prompt.
LongDescriptionInputs == { <<>>, Xs(9), Xs(10), Xs(500), Xs(501) }

StartupInit ==
    /\ world \in StartupWorlds
    /\ credentials \in CredentialFiles
    /\ remotes = InitialRemotes
    /\ authorSettings = [stage |-> "pending", st |-> InitialSettings]
    /\ s1 = [done |-> FALSE, st |-> InitialSettings]
    /\ packageManagerSettings = [done |-> FALSE, packageManager |-> None]
    /\ pc = "start"
    /\ s = InitialSettings
    /\ hub = NoView
    /\ steps = <<>>
    /\ last = NoAnswer
    /\ edits = 0
    /\ exit = "running"
    /\ cancelPressed = FALSE
    /\ createCalls = {}
    /\ generated = <<>>
    /\ ServicesIdle

StartupGuessGitAccount ==
    /\ Running /\ pc = "start" /\ authorSettings.stage = "inferred"
    /\ \E byEmail \in AllEmailHits, byUsername \in AllUsernameHits, byGitlab \in AllGitlabHits :
          authorSettings' = [stage |-> "done",
                             st |-> guessGitAccount(authorSettings.st, byEmail, byUsername, byGitlab)]
    /\ UNCHANGED <<env, remotes, s1, packageManagerSettings, pc, s, hub, steps, last,
                   edits, exit, cancelPressed, createCalls, generated>>

\* The description prompt of main: an answer its validate callback rejects
\* leaves the prompt open.
StartupSelectDescription ==
    /\ Running /\ pc = "description"
    /\ \E description \in LongDescriptionInputs :
          IF ~validDescription(description)
          THEN /\ last' = [sel |-> "invalid", answer |-> description, ran |-> <<>>]
               /\ UNCHANGED <<fanOut, pc, s, hub, steps, edits, exit>>
          ELSE IF HasPathInfo(s)
          THEN /\ s' = selectDescription(s, description)
               /\ last' = [sel |-> "", answer |-> description,
                           ran |-> <<"selectDescription">>]
               /\ steps' = Append(steps, "selectDescription")
               /\ pc' = "account"
               /\ UNCHANGED <<fanOut, hub, edits, exit>>
          ELSE End("crashed")
    /\ UNCHANGED <<env, remotes, cancelPressed, createCalls, generated>>

StartupNext ==
    \/ AddAuthorInfo \/ StartupGuessGitAccount \/ DeterminePackageManager
    \/ FirstSelectType \/ Join
    \/ ForcedSelectName \/ StartupSelectDescription
    \/ SkipGithubAccount \/ ForcedSelectGithubAccount
    \/ DeviceFlowToken \/ DeviceFlowError \/ DeviceFlowCancel
    \/ ForcedAddRepoUrl \/ SkipSelectOrigin \/ ForcedSelectOrigin
    \/ Cancel

Startup == StartupInit /\ [][StartupNext]_vars

----------------------------------------------------------------------------
(* The resolvers, each called on the records main and the hub hand to them *)

MaxCalls == 2

\* A host without a git identity, and one whose git identity differs from
\* the GitHub profile.
NoGitConfigHost == [gitName |-> None, gitEmail |-> None, osUser |-> <<"al">>]
WorkHost == [gitName |-> <<"ally">>, gitEmail |-> <<"al", "@", "work">>, osUser |-> <<"al">>]
Hosts == {NoGitConfigHost, WorkHost}

\* The identity fields as the steps before the hub leave them: nothing known,
\* signed in, a stored user without a token, an account found by the email
\* search, a GitLab account.
Identities ==
    { [gitAccount |-> NoAccount, githubUsername |-> None, githubToken |-> None],
      [gitAccount |-> [type |-> "github", username |-> <<"alice">>, confidence |-> 10],
       githubUsername |-> <<"alice">>, githubToken |-> <<"tokA">>],
      [gitAccount |-> [type |-> "github", username |-> <<"alice">>, confidence |-> 5],
       githubUsername |-> <<"alice">>, githubToken |-> None],
      [gitAccount |-> [type |-> "github", username |-> <<"bob">>, confidence |-> 10],
       githubUsername |-> <<"bob">>, githubToken |-> None],
      [gitAccount |-> [type |-> "gitlab", username |-> <<"alice">>, confidence |-> 5],
       githubUsername |-> None, githubToken |-> None] }

\* repo and branch as an earlier step may have left them.
RepoPresets ==
    { [repo |-> None, branch |-> None],
      [repo |-> HttpsUrl, branch |-> None],
      [repo |-> None, branch |-> <<"dev">>] }

AuthorPresets ==
    { [authorName |-> None, authorEmail |-> None],
      [authorName |-> <<"carol">>, authorEmail |-> <<"carol", "@", "example.org">>] }

\* The record selectName and selectPath hand to addPathInfo: name and path
\* chosen, the path not probed yet.
InputRecords ==
    { [InitialSettings EXCEPT !.name = name, !.path = NewPath(name),
                              !.gitAccount = id.gitAccount,
                              !.githubUsername = id.githubUsername,
                              !.githubToken = id.githubToken,
                              !.repo = rp.repo, !.branch = rp.branch,
                              !.authorName = au.authorName, !.authorEmail = au.authorEmail] :
        name \in { <<"pkg">>, <<"proj">> }, id \in Identities,
        rp \in RepoPresets, au \in AuthorPresets }

ResolversInit ==
    /\ world \in StartupWorlds
    /\ credentials \in {NoCredentials, StoredCredentials, UserOnlyCredentials}
    /\ remotes = InitialRemotes
    /\ authorSettings = [stage |-> "pending", st |-> InitialSettings]
    /\ s1 = [done |-> FALSE, st |-> InitialSettings]
    /\ packageManagerSettings = [done |-> FALSE, packageManager |-> None]
    /\ pc = "resolvers"
    /\ s \in InputRecords
    /\ hub = NoView
    /\ steps = <<>>
    /\ last = NoAnswer
    /\ edits = 0
    /\ exit = "running"
    /\ cancelPressed = FALSE
    /\ createCalls = {}
    /\ generated = <<>>
    /\ ServicesIdle

\* s1.st keeps the argument of the call, last its name, what the host and the
\* services answered, and the requests it made; steps lists the probed paths.
Called(fn, answer, ran, result) ==
    /\ pc = "resolvers" /\ edits < MaxCalls
    /\ s1' = [done |-> TRUE, st |-> s]
    /\ s' = result
    /\ last' = [sel |-> fn, answer |-> answer, ran |-> ran]
    /\ edits' = edits + 1
    /\ UNCHANGED <<env, remotes, authorSettings, packageManagerSettings, pc, hub, exit,
                   cancelPressed, createCalls, generated>>

\* The requests of addAuthorInfo: GET /user, when the credentials hold a token.
AuthorRequests(creds) == IF creds.accessToken # None THEN <<"getUserInfo">> ELSE <<>>

CallAddAuthorInfo ==
    \E host \in Hosts :
        /\ Called("addAuthorInfo", <<host.gitName, host.gitEmail, host.osUser>>,
                  AuthorRequests(credentials), addAuthorInfo(s, host, credentials))
        /\ UNCHANGED steps

\* The searches guessGitAccount makes, in the order it makes them.
GuessRequests(st, byEmail, byUsername, byGitlab) ==
    IF IsSet(st.githubUsername) THEN <<>>
    ELSE IF IsSet(byEmail) THEN <<"githubByEmail">>
    ELSE IF IsSet(byUsername) THEN <<"githubByEmail", "githubByUsername">>
    ELSE <<"githubByEmail", "githubByUsername", "gitlabByUsername">>

\* main calls guessGitAccount once, on a record without an account.
CallGuessGitAccount ==
    /\ s.gitAccount = NoAccount
    /\ \E byEmail \in AllEmailHits, byUsername \in AllUsernameHits, byGitlab \in AllGitlabHits :
          Called("guessGitAccount", <<byEmail, byUsername, byGitlab>>,
                 GuessRequests(s, byEmail, byUsername, byGitlab),
                 guessGitAccount(s, byEmail, byUsername, byGitlab))
    /\ UNCHANGED steps

ProbedPathsWithoutMemo(st) == IF ~IsSet(st.path) THEN <<>> ELSE <<st.path>>

\* The paths a call of addPathInfo probes.
ProbedPaths(st) == IF ~IsSet(st.path) \/ HasPathInfo(st) THEN <<>> ELSE <<st.path>>

CallAddPathInfo ==
    /\ Called("addPathInfo", <<>>, <<>>, addPathInfo(s, world))
    /\ steps' = steps \o ProbedPaths(s)

\* main and selectGithubAccount call addRepoUrl after the path was probed.
CallAddRepoUrl ==
    /\ HasPathInfo(s)
    /\ Called("addRepoUrl", <<>>, <<>>, addRepoUrl(s, remotes))
    /\ UNCHANGED steps

ResolversNext ==
    \/ CallAddAuthorInfo \/ CallGuessGitAccount \/ CallAddPathInfo \/ CallAddRepoUrl

Resolvers == ResolversInit /\ [][ResolversNext]_vars

----------------------------------------------------------------------------
(* The device flow: fetchToken polls the token endpoint *)

MaxRequests == 4

\* The wizard as it stands while a module is looked at on its own.
WizardNotStarted ==
    /\ world = NoGit /\ credentials = NoCredentials
    /\ authorSettings = [stage |-> "pending", st |-> InitialSettings]
    /\ s1 = [done |-> FALSE, st |-> InitialSettings]
    /\ packageManagerSettings = [done |-> FALSE, packageManager |-> None]
    /\ pc = "start" /\ s = InitialSettings /\ hub = NoView /\ steps = <<>>
    /\ last = NoAnswer /\ edits = 0 /\ exit = "running" /\ cancelPressed = FALSE
    /\ createCalls = {} /\ generated = <<>>

wizard == <<world, credentials, authorSettings, s1, packageManagerSettings, pc, s, hub,
            steps, last, edits, exit, cancelPressed, createCalls, generated>>

\* What the token endpoint may answer. interval 0, error "" and access_token
\* None stand for a field the answer does not have; complete says that
\* token_type and scope are there.
TokenResponse(error, interval, description, token, complete) ==
    [error |-> error, interval |-> interval, error_description |-> description,
     access_token |-> token, complete |-> complete]

TokenResponses ==
    { TokenResponse("authorization_pending", 0, "", None, FALSE),
      TokenResponse("slow_down", 10, "", None, FALSE),
      TokenResponse("slow_down", 20, "", None, FALSE),
      TokenResponse("access_denied", 0, "The user has denied your application access.",
                    None, FALSE),
      TokenResponse("", 0, "", <<"tokB">>, TRUE),
      TokenResponse("", 0, "", <<"tokB">>, FALSE) }

\* The interval fetchCode hands to fetchToken, in seconds.
CodeIntervals == {1, 5}

waitMsWithoutPendingWait(interval, jsonResponse) ==
    IF jsonResponse.error = "authorization_pending" THEN 0
    ELSE jsonResponse.interval * 1000

\* The delay of the timer before the retry.
waitMs(interval, jsonResponse) ==
    IF jsonResponse.error = "authorization_pending" THEN interval * 1000
    ELSE jsonResponse.interval * 1000

retryIntervalUnchanged(interval, jsonResponse) == interval

\* The interval the retry is called with.
retryInterval(interval, jsonResponse) ==
    IF jsonResponse.error = "authorization_pending" THEN interval
    ELSE jsonResponse.interval

DeviceFlowInit ==
    /\ WizardNotStarted
    /\ remotes = InitialRemotes
    /\ CachesEmpty
    /\ search = NoSearch
    /\ \E interval \in CodeIntervals :
          poll = [NoPoll EXCEPT !.pc = "request", !.interval = interval,
                                !.first = interval, !.requests = 1]

\* The answer to the request in flight arrives.
TokenEndpointAnswers ==
    /\ poll.pc = "request"
    /\ \E jsonResponse \in TokenResponses :
          LET retries == jsonResponse.error \in {"authorization_pending", "slow_down"}
              seen    == Append(poll.responses, jsonResponse)
          IN  /\ retries => poll.requests < MaxRequests
              /\ poll' =
                   IF retries
                   THEN [poll EXCEPT !.pc = "wait",
                                     !.waiting = waitMs(poll.interval, jsonResponse),
                                     !.interval = retryInterval(poll.interval, jsonResponse),
                                     !.responses = seen]
                   ELSE IF jsonResponse.error # ""
                   THEN [poll EXCEPT !.pc = "failed",
                                     !.message = jsonResponse.error_description,
                                     !.responses = seen]
                   ELSE IF jsonResponse.access_token = None \/ ~jsonResponse.complete
                   THEN [poll EXCEPT !.pc = "failed",
                                     !.message = "Failed to get valid access token",
                                     !.responses = seen]
                   ELSE [poll EXCEPT !.pc = "returned",
                                     !.accessToken = jsonResponse.access_token,
                                     !.responses = seen]
    /\ UNCHANGED <<wizard, remotes, caches, search>>

\* The timer of the wait fires: fetchToken calls itself and sends a request.
RetryAfterWait ==
    /\ poll.pc = "wait"
    /\ poll' = [poll EXCEPT !.pc = "request", !.waiting = 0,
                            !.waits = Append(poll.waits, poll.waiting),
                            !.requests = poll.requests + 1]
    /\ UNCHANGED <<wizard, remotes, caches, search>>

DeviceFlowNext == TokenEndpointAnswers \/ RetryAfterWait

DeviceFlow == DeviceFlowInit /\ [][DeviceFlowNext]_vars

\* The polling with an endpoint that never tires. The requests, waits and
\* responses are counted up to MaxRequests and no further; what fetchToken does
\* does not depend on them.
GivesUpWhenExpired ==
    /\ poll.pc = "request" /\ poll.requests = MaxRequests
    /\ poll' = [poll EXCEPT !.pc = "failed", !.message = "expired_token"]
    /\ UNCHANGED <<wizard, remotes, caches, search>>

\* The endpoint answers a request beyond the counted ones with
\* authorization_pending or slow_down.
EndpointKeepsAnswering ==
    /\ poll.pc = "request" /\ poll.requests = MaxRequests
    /\ \E jsonResponse \in TokenResponses :
          /\ jsonResponse.error \in {"authorization_pending", "slow_down"}
          /\ poll' = [poll EXCEPT !.pc = "wait",
                                  !.waiting = waitMs(poll.interval, jsonResponse),
                                  !.interval = retryInterval(poll.interval, jsonResponse)]
    /\ UNCHANGED <<wizard, remotes, caches, search>>

\* The timer of the wait fires, whatever the number of requests so far.
PollingTimer ==
    IF poll.requests < MaxRequests THEN RetryAfterWait
    ELSE /\ poll.pc = "wait"
         /\ poll' = [poll EXCEPT !.pc = "request", !.waiting = 0]
         /\ UNCHANGED <<wizard, remotes, caches, search>>

PollingNext == TokenEndpointAnswers \/ EndpointKeepsAnswering \/ PollingTimer

\* setTimeout fires; whether the endpoint answers is up to the endpoint.
Polling == DeviceFlowInit /\ [][PollingNext]_vars /\ WF_vars(PollingTimer)

----------------------------------------------------------------------------
(* The GitHub client: getUserInfo, getUserRepos and createGithubRepo with
   their two caches. Each action is one run of the code between two awaits. *)

Request(method, path, accessToken) ==
    [method |-> method, path |-> path, accessToken |-> accessToken]

\* The names createGithubRepo is called with.
NewRepoNames == { <<"pkg">> }

Calls ==
    { [fn |-> "getUserInfo", name |-> None], [fn |-> "getUserRepos", name |-> None] }
    \cup { [fn |-> "createGithubRepo", name |-> name] : name \in NewRepoNames }

\* Each call creates at most one promise of getUserRepos.
PromiseIds == 1..MaxCallers

cachedReposNever(cache, name) == 0

\* const prevPromise = reposByName[userInfo.name]: 0 when there is none.
cachedRepos(cache, name) == cache[name]

evictNothing(cache, name) == cache

\* delete reposByName[userInfo.name]
evict(cache, name) == [cache EXCEPT ![name] = 0]

\* getUserInfo as it would be if a rejected promise were not served again.
getUserInfoRetrying(accessToken) ==
    IF userInfoByToken[accessToken].state \in {"pending", "fulfilled"}
    THEN [userInfoByToken |-> userInfoByToken, requests |-> requests]
    ELSE [userInfoByToken |->
              [userInfoByToken EXCEPT ![accessToken] = [NoPromise EXCEPT !.state = "pending"]],
          requests |-> Append(requests, Request("GET", "/user", accessToken))]

\* getUserInfo up to its return: the cached promise, or a new one with its
\* request sent.
getUserInfo(accessToken) ==
    IF userInfoByToken[accessToken].state # "none"
    THEN [userInfoByToken |-> userInfoByToken, requests |-> requests]
    ELSE [userInfoByToken |->
              [userInfoByToken EXCEPT ![accessToken] = [NoPromise EXCEPT !.state = "pending"]],
          requests |-> Append(requests, Request("GET", "/user", accessToken))]

ClientInit ==
    /\ WizardNotStarted
    /\ remotes = InitialRemotes
    /\ poll = NoPoll
    /\ search = NoSearch
    /\ CachesEmpty

\* A caller calls one of the three functions: each starts with getUserInfo.
Call(c) ==
    /\ callers[c].pc = "idle"
    /\ \A b \in Callers : b < c => callers[b].pc # "idle"
    /\ \E call \in Calls, accessToken \in ServiceTokens :
          LET started == getUserInfo(accessToken)
          IN  /\ userInfoByToken' = started.userInfoByToken
              /\ requests' = started.requests
              /\ callers' = [callers EXCEPT ![c] =
                                [NoCall EXCEPT !.fn = call.fn, !.name = call.name,
                                               !.accessToken = accessToken,
                                               !.pc = "awaitUserInfo"]]
    /\ UNCHANGED <<wizard, remotes, poll, search, reposByName, repoPromises>>

\* GET /user answers: the promise of the token settles.
UserInfoResponse(accessToken) ==
    /\ userInfoByToken[accessToken].state = "pending"
    /\ LET jsonResponse == UserInfoOf(accessToken)
       IN  userInfoByToken' =
             [userInfoByToken EXCEPT ![accessToken] =
                 IF jsonResponse.name = None \/ jsonResponse.email = None
                 THEN [state |-> "rejected", value |-> NoUserInfo]
                 ELSE [state |-> "fulfilled", value |-> jsonResponse]]
    /\ UNCHANGED <<wizard, remotes, poll, search, reposByName, repoPromises, requests, callers>>

\* A caller resumes after await getUserInfo.
AfterUserInfo(c) ==
    LET self     == callers[c]
        promise  == userInfoByToken[self.accessToken]
        userInfo == promise.value
        prevPromise == cachedRepos(reposByName, userInfo.name)
    IN  /\ self.pc = "awaitUserInfo"
        /\ promise.state \in {"fulfilled", "rejected"}
        /\ IF promise.state = "rejected"
           THEN /\ callers' = [callers EXCEPT ![c].pc = "threw",
                                              ![c].message = "Failed to get user info"]
                /\ UNCHANGED <<reposByName, repoPromises, requests>>
           ELSE IF self.fn = "getUserInfo"
           THEN /\ callers' = [callers EXCEPT ![c].pc = "returned", ![c].userInfo = userInfo]
                /\ UNCHANGED <<reposByName, repoPromises, requests>>
           ELSE IF self.fn = "createGithubRepo" /\ ~self.posted
           THEN /\ callers' = [callers EXCEPT ![c].pc = "awaitPost", ![c].userInfo = userInfo]
                /\ requests' = Append(requests, Request("POST", "/user/repos", self.accessToken))
                /\ UNCHANGED <<reposByName, repoPromises>>
           ELSE IF prevPromise # 0
           THEN /\ callers' = [callers EXCEPT ![c].pc = "awaitRepos", ![c].awaits = prevPromise,
                                              ![c].userInfo = userInfo]
                /\ UNCHANGED <<reposByName, repoPromises, requests>>
           ELSE /\ repoPromises' = Append(repoPromises,
                                          [name |-> userInfo.name, state |-> "pending",
                                           value |-> <<>>])
                /\ reposByName' = [reposByName EXCEPT ![userInfo.name] = Len(repoPromises) + 1]
                /\ requests' = Append(requests, Request("GET", "/user/repos", self.accessToken))
                /\ callers' = [callers EXCEPT ![c].pc = "awaitRepos",
                                              ![c].awaits = Len(repoPromises) + 1,
                                              ![c].userInfo = userInfo]
        /\ UNCHANGED <<wizard, remotes, poll, search, userInfoByToken>>

\* GET /user/repos answers with the repositories the user has by now, or with
\* something that is not a list of repositories.
ReposResponse(i) ==
    /\ i <= Len(repoPromises)
    /\ repoPromises[i].state = "pending"
    /\ \E valid \in BOOLEAN :
          repoPromises' = [repoPromises EXCEPT ![i] =
              IF valid THEN [@ EXCEPT !.state = "fulfilled", !.value = UserRepos(remotes)]
              ELSE [@ EXCEPT !.state = "rejected"]]
    /\ UNCHANGED <<wizard, remotes, poll, search, userInfoByToken, reposByName, requests, callers>>

\* A caller resumes after the promise of the repositories settled.
AfterRepos(c) ==
    LET self    == callers[c]
        promise == repoPromises[self.awaits]
    IN  /\ self.pc = "awaitRepos"
        /\ promise.state \in {"fulfilled", "rejected"}
        /\ callers' = [callers EXCEPT ![c] =
              IF promise.state = "rejected"
              THEN [@ EXCEPT !.pc = "threw", !.message = "Failed to get user repos"]
              ELSE [@ EXCEPT !.pc = "returned", !.repos = promise.value]]
        /\ UNCHANGED <<wizard, remotes, poll, search, userInfoByToken, reposByName, repoPromises,
                       requests>>

\* POST /user/repos answers. 201: GitHub has the repository, the entry of the
\* user leaves the cache and getUserRepos is called. 422: the name is taken.
\* 500: GitHub failed.
PostResponse(c) ==
    LET self == callers[c]
        url  == GithubUrl(self.userInfo.name, self.name)
    IN  /\ self.pc = "awaitPost"
        /\ \E status \in {201, 422, 500} :
              /\ status = 201 => url \notin remotes
              /\ status = 422 => url \in remotes
              /\ IF status # 201
                 THEN /\ callers' = [callers EXCEPT ![c].pc = "threw",
                                                    ![c].message = "Failed to create repo"]
                      /\ UNCHANGED <<remotes, reposByName, userInfoByToken, requests>>
                 ELSE LET started == getUserInfo(self.accessToken)
                      IN  /\ remotes' = remotes \cup {url}
                          /\ reposByName' = evict(reposByName, self.userInfo.name)
                          /\ userInfoByToken' = started.userInfoByToken
                          /\ requests' = started.requests
                          /\ callers' = [callers EXCEPT ![c].pc = "awaitUserInfo",
                                                        ![c].posted = TRUE]
        /\ UNCHANGED <<wizard, poll, search, repoPromises>>

ClientNext ==
    \/ \E c \in Callers : Call(c)
    \/ \E accessToken \in ServiceTokens : UserInfoResponse(accessToken)
    \/ \E c \in Callers : AfterUserInfo(c)
    \/ \E i \in PromiseIds : ReposResponse(i)
    \/ \E c \in Callers : AfterRepos(c)
    \/ \E c \in Callers : PostResponse(c)

Client == ClientInit /\ [][ClientNext]_vars

----------------------------------------------------------------------------
(* The search for a repository name: trashSearch on its own *)

MaxHaystack == 3

\* Names as a user has them: one that differs in case, two that differ in
\* punctuation, one that is punctuation only and the empty one.
SearchNames ==
    { <<"pkg">>, <<"Pkg">>, <<"my", "-", "pkg">>, <<"my", "pkg">>, <<"other">>, <<"-">>, <<>> }

Haystacks == UNION { [1..n -> SearchNames] : n \in 0..MaxHaystack }

SearchInit ==
    /\ WizardNotStarted
    /\ remotes = InitialRemotes
    /\ poll = NoPoll
    /\ CachesEmpty
    /\ \E needle \in SearchNames, haystack \in Haystacks :
          search = [NoSearch EXCEPT !.needle = needle, !.haystack = haystack]

CallTrashSearch ==
    /\ ~search.returned
    /\ search' = [search EXCEPT !.returned = TRUE,
                                !.result = trashSearch(search.needle, search.haystack)]
    /\ UNCHANGED <<wizard, remotes, poll, caches>>

SearchNext == CallTrashSearch

Search == SearchInit /\ [][SearchNext]_vars

----------------------------------------------------------------------------
(* The lookups of addAuthorInfo and addPathInfo on hosts where they fail *)

\* A git repository rooted at the invoke directory that has no remote:
\* `git remote get-url origin` fails inside the work tree.
NoRemote == [gitRoot |-> InvokeDirectory, origin |-> None]

LookupWorlds == {NoGit, NoRemote, InMonorepo}

\* The records the two resolvers are called on before an account is guessed.
LookupRecords ==
    { [InitialSettings EXCEPT !.name = name, !.path = NewPath(name),
                              !.authorName = au.authorName, !.authorEmail = au.authorEmail] :
        name \in { <<"pkg">>, <<"proj">> }, au \in AuthorPresets }

LookupsInit ==
    /\ world \in LookupWorlds
    /\ credentials \in CredentialFiles
    /\ remotes = InitialRemotes
    /\ authorSettings = [stage |-> "pending", st |-> InitialSettings]
    /\ s1 = [done |-> FALSE, st |-> InitialSettings]
    /\ packageManagerSettings = [done |-> FALSE, packageManager |-> None]
    /\ pc = "resolvers"
    /\ s \in LookupRecords
    /\ hub = NoView
    /\ steps = <<>>
    /\ last = NoAnswer
    /\ edits = 0
    /\ exit = "running"
    /\ cancelPressed = FALSE
    /\ createCalls = {}
    /\ generated = <<>>
    /\ ServicesIdle

LookupsNext == CallAddAuthorInfo \/ CallAddPathInfo

Lookups == LookupsInit /\ [][LookupsNext]_vars

----------------------------------------------------------------------------
(* selectOrigin on its own, with its two nested prompts *)

\* The records selectOrigin is called on: named, with and without a
\* description, a repo and a signed-in account.
OriginRecords ==
    { [InitialSettings EXCEPT !.name = <<"pkg">>, !.path = <<"pkg">>,
                              !.description = description,
                              !.gitAccount = id.gitAccount,
                              !.githubUsername = id.githubUsername,
                              !.githubToken = id.githubToken,
                              !.repo = repo] :
        description \in {None, Xs(10)}, id \in Identities, repo \in {None, HttpsUrl} }

\* What the user may answer when selectOrigin asks for the description.
AskedDescriptions == { <<>>, Xs(12) }

\* selectOrigin goes to the prompt of the description.
AsksDescription(st, rem, repo, create) ==
    OffersCreate(st, rem, repo) /\ create /\ ~IsSet(st.description)

\* settings.description ? settings : await selectDescription(settings, ...)
settingsWithDescription(st, description) ==
    IF IsSet(st.description) THEN st ELSE selectDescription(st, description)

OriginInit ==
    /\ world = NoGit
    /\ credentials = NoCredentials
    /\ remotes = InitialRemotes
    /\ authorSettings = [stage |-> "pending", st |-> InitialSettings]
    /\ s1 = [done |-> FALSE, st |-> InitialSettings]
    /\ packageManagerSettings = [done |-> FALSE, packageManager |-> None]
    /\ pc = "resolvers"
    /\ s \in OriginRecords
    /\ hub = NoView
    /\ steps = <<>>
    /\ last = NoAnswer
    /\ edits = 0
    /\ exit = "running"
    /\ cancelPressed = FALSE
    /\ createCalls = {}
    /\ generated = <<>>
    /\ ServicesIdle

\* One call of selectOrigin. last keeps the three answers and the prompts
\* shown, s1.st the record it was called on, hub.repoExists what the liveness
\* check of the entered URL said; when createGithubRepo throws no record comes
\* back.
CallSelectOrigin ==
    /\ pc = "resolvers" /\ Running /\ edits < MaxCalls
    /\ \E repo \in RepoInputs :
          /\ validRepoInput(repo)
          /\ \E create \in IF OffersCreate(s, remotes, repo) THEN BOOLEAN ELSE {FALSE} :
             \E description \in IF AsksDescription(s, remotes, repo, create)
                                THEN AskedDescriptions ELSE { <<>> } :
             \E status \in IF OffersCreate(s, remotes, repo) /\ create THEN {201, 422} ELSE {201} :
                LET asked == settingsWithDescription(s, description)
                    out   == selectOrigin(s, remotes, repo, create, status)
                IN  /\ remotes' = out.rem
                    /\ createCalls' = createCalls \cup out.calls
                    /\ s' = IF out.thrown THEN s ELSE out.st
                    /\ exit' = IF out.thrown THEN "failed" ELSE exit
                    /\ s1' = [done |-> TRUE, st |-> s]
                    /\ hub' = [NoView EXCEPT !.repoExists = IsSet(repo) /\ validateGitRepo(repo, remotes)]
                    /\ last' = [sel |-> "selectOrigin",
                                answer |-> <<repo, Bool(create), asked.description>>,
                                ran |-> <<"repo">>
                                        \o (IF OffersCreate(s, remotes, repo) THEN <<"create">> ELSE <<>>)
                                        \o (IF AsksDescription(s, remotes, repo, create)
                                            THEN <<"description">> ELSE <<>>)]
                    /\ edits' = edits + 1
    /\ UNCHANGED <<env, authorSettings, packageManagerSettings, pc, steps, cancelPressed, generated>>

OriginNext == CallSelectOrigin

Origin == OriginInit /\ [][OriginNext]_vars

----------------------------------------------------------------------------
(* Properties of the start of the wizard *)

DescriptionSet == Live /\ s.description # None

\* C11: a description that is set is empty or 10 to 500 characters long; an
\* answer outside that range leaves the prompt open and the record as it was,
\* and an answer that reaches the record is in the range.
DescriptionInRange ==
    /\ [](DescriptionSet =>
             \/ Len(s.description) = 0
             \/ Len(s.description) >= 10 /\ Len(s.description) <= 500)
    /\ [][/\ pc = "description" /\ Live' /\ last'.sel = "invalid" /\ last' # last
             => /\ Len(last'.answer) # 0
                /\ Len(last'.answer) < 10 \/ Len(last'.answer) > 500
                /\ s' = s /\ pc' = "description"
          /\ pc = "description" /\ Live' /\ s'.description # s.description
             => /\ s'.description = last'.answer
                /\ \/ Len(last'.answer) = 0
                   \/ Len(last'.answer) >= 10 /\ Len(last'.answer) <= 500]_vars

\* C11 witness: the prompt turned down an answer of 501 characters and is open
\* again, the record still without a description.
LongDescriptionRejected ==
    /\ Live /\ pc = "description"
    /\ last.sel = "invalid" /\ Len(last.answer) = 501
    /\ s.description = None

\* A step resolved an account that is not the GitHub identity the record had.
ResolvedOtherAccount(old, new) ==
    /\ new.gitAccount # old.gitAccount
    /\ new.gitAccount.type # "github" \/ new.gitAccount.username # old.githubUsername

TokenCarriedOver(old, new) ==
    IsSet(old.githubToken) /\ new.githubToken = old.githubToken

\* The token of the record is the token of the identity in githubUsername: the
\* name of the token's profile, or the user the credentials file names for it.
TokenOfStoredIdentity(st) ==
    IsSet(st.githubToken) /\ IsSet(st.githubUsername)
        => \/ st.githubUsername = UserInfoOf(st.githubToken).name
           \/ st.githubToken = credentials.accessToken /\ st.githubUsername = credentials.user

\* C12: a step that resolves an account other than the stored GitHub identity
\* (another username, or an account that is not on GitHub) does not carry the
\* stored githubToken over; so a record that has a githubToken and a
\* githubUsername has the token of that identity.
NoStaleGithubToken ==
    /\ [](TokenOfStoredIdentity(authorSettings.st) /\ (Live => TokenOfStoredIdentity(s)))
    /\ [][/\ ResolvedOtherAccount(authorSettings.st, authorSettings'.st)
             => ~TokenCarriedOver(authorSettings.st, authorSettings'.st)
          /\ Live /\ Live' /\ ResolvedOtherAccount(s, s')
             => ~TokenCarriedOver(s, s')]_vars

\* C12 witness: the credentials file held a token, a search resolved the
\* account bob, and the record carries no token.
StoredTokenDropped ==
    /\ IsSet(credentials.accessToken)
    /\ authorSettings.stage = "done"
    /\ authorSettings.st.gitAccount.type = "github"
    /\ authorSettings.st.githubUsername = <<"bob">>
    /\ authorSettings.st.githubToken = None

GitlabWithoutGithubIdentity(st) ==
    st.gitAccount.type = "gitlab" => st.githubUsername = None /\ st.githubToken = None

\* C13: a record whose account is a GitLab account has neither a
\* githubUsername nor a githubToken, and the step that resolves a GitLab
\* account unsets both.
GitlabClearsGithubIdentity ==
    /\ [](GitlabWithoutGithubIdentity(authorSettings.st)
          /\ (Live => GitlabWithoutGithubIdentity(s)))
    /\ [][authorSettings'.st.gitAccount.type = "gitlab"
             /\ authorSettings.st.gitAccount.type # "gitlab"
          => /\ authorSettings'.st.githubUsername = None
             /\ authorSettings'.st.githubToken = None]_vars

\* C13 witness: the credentials file held a token, the GitLab search resolved
\* the account, and the wizard reached the hub with that account.
GitlabAccountInHub ==
    /\ Live /\ pc = "review"
    /\ IsSet(credentials.accessToken)
    /\ s.gitAccount.type = "gitlab"

\* confidence 1 is stored as 10, confidence 0.5 as 5.
ConfidenceBacked(st) ==
    /\ st.gitAccount.confidence = 10
       => st.gitAccount.type = "github" /\ IsSet(st.githubToken)
          /\ st.githubUsername = st.gitAccount.username
    /\ st.gitAccount.type # "none" /\ st.githubToken = None
       => st.gitAccount.confidence = 5

\* C14: an account has confidence 1 only when the record holds a githubToken
\* for the account's username, and confidence 0.5 when it comes from a search
\* made without a token.
ConfidenceOneOnlyWithToken ==
    ConfidenceBacked(authorSettings.st) /\ (Live => ConfidenceBacked(s))

----------------------------------------------------------------------------
(* Properties of the resolvers *)

\* The step from the argument s to the result s' is a call of fn.
IsCall(fn) == edits' = edits + 1 /\ last'.sel = fn

Account(type, username, confidence) ==
    [type |-> type, username |-> username, confidence |-> confidence]

\* C15: guessGitAccount takes the first source that answers, in the order
\* known githubUsername, GitHub search by email, GitHub search by username,
\* GitLab search by username, and asks no source after it; the account is
\* {github, githubUsername, 1 with a token, 0.5 without}, {github, email hit,
\* 1}, {github, username hit, 0.5} or {gitlab, hit, 0.5}; when no source
\* answers the record comes back as it was, without an account.
GuessTakesFirstSource ==
    [][IsCall("guessGitAccount") =>
        LET byEmail == last'.answer[1]
            byUsername == last'.answer[2]
            byGitlab == last'.answer[3]
        IN  \/ /\ IsSet(s.githubUsername)
               /\ last'.ran = <<>>
               /\ s'.gitAccount = Account("github", s.githubUsername,
                                          IF IsSet(s.githubToken) THEN 10 ELSE 5)
            \/ /\ ~IsSet(s.githubUsername) /\ IsSet(byEmail)
               /\ last'.ran = <<"githubByEmail">>
               /\ s'.gitAccount = Account("github", byEmail, 10)
            \/ /\ ~IsSet(s.githubUsername) /\ ~IsSet(byEmail) /\ IsSet(byUsername)
               /\ last'.ran = <<"githubByEmail", "githubByUsername">>
               /\ s'.gitAccount = Account("github", byUsername, 5)
            \/ /\ ~IsSet(s.githubUsername) /\ ~IsSet(byEmail) /\ ~IsSet(byUsername)
               /\ IsSet(byGitlab)
               /\ last'.ran = <<"githubByEmail", "githubByUsername", "gitlabByUsername">>
               /\ s'.gitAccount = Account("gitlab", byGitlab, 5)
            \/ /\ ~IsSet(s.githubUsername) /\ ~IsSet(byEmail) /\ ~IsSet(byUsername)
               /\ ~IsSet(byGitlab)
               /\ last'.ran = <<"githubByEmail", "githubByUsername", "gitlabByUsername">>
               /\ s' = s /\ s'.gitAccount = NoAccount]_vars

\* C15 witness: both GitHub searches had a hit, and the account is the hit
\* of the search by email.
EmailHitBeforeUsernameHit ==
    /\ last.sel = "guessGitAccount"
    /\ last.answer[1] = <<"bob">> /\ last.answer[2] = <<"alice">>
    /\ last.ran = <<"githubByEmail">>
    /\ s.gitAccount = Account("github", <<"bob">>, 10)

\* What the stored GitHub credentials give: the profile of their token, and
\* the user they name.
GithubProfile(creds) ==
    IF creds.accessToken # None
    THEN [name |-> Coalesce(UserInfoOf(creds.accessToken).name, creds.user),
          email |-> UserInfoOf(creds.accessToken).email]
    ELSE [name |-> creds.user, email |-> None]

\* C16: addAuthorInfo fills authorName and authorEmail each with the first
\* that is there of the explicit value, the value of the GitHub profile, the
\* value of the git config and, for the name only, the OS account name; it
\* asks GitHub for the profile exactly when the stored credentials hold a
\* token.
AuthorFilledByPriorityChain ==
    [][IsCall("addAuthorInfo") =>
        LET gitName == last'.answer[1]
            gitEmail == last'.answer[2]
            osUser == last'.answer[3]
            profile == GithubProfile(credentials)
        IN  /\ s'.authorName = Coalesce(s.authorName, Coalesce(profile.name,
                                   Coalesce(gitName, osUser)))
            /\ s'.authorEmail = Coalesce(s.authorEmail, Coalesce(profile.email, gitEmail))
            /\ last'.ran = IF IsSet(credentials.accessToken) THEN <<"getUserInfo">> ELSE <<>>]_vars

OriginOf(st) == IF HasPathInfo(st) THEN getPathInfo(st).gitOrigin ELSE None

FoundRepo(st) ==
    IF IsSet(st.githubToken) /\ IsSet(st.githubUsername) /\ IsSet(st.name)
    THEN findGithubRepo(st.name, remotes) ELSE None

\* addRepoUrl has neither an origin nor a found repository nor a repo to go
\* by, and an account and a name to build a URL from.
BuildsRepoUrl(st) ==
    /\ ~IsSet(OriginOf(st)) /\ FoundRepo(st) = None
    /\ ~IsSet(st.repo) /\ st.gitAccount # NoAccount /\ IsSet(st.name)

\* C18: the URL addRepoUrl builds from account and name becomes the repo
\* only if git ls-remote reaches it; when it does not (the failing command
\* included) the record comes back as it was, repo unset.
BuiltRepoUrlOnlyIfReachable ==
    [][IsCall("addRepoUrl") /\ BuildsRepoUrl(s) =>
        LET repoUrl == buildGitRepoUrl(s.gitAccount.type, s.gitAccount.username, s.name)
        IN  IF repoUrl \in remotes
            THEN s'.repo = repoUrl
            ELSE s' = s /\ s'.repo = None]_vars

\* C18 witness: addRepoUrl built a URL that is no remote, and the repo is
\* unset.
BuiltRepoUrlRejected ==
    /\ last.sel = "addRepoUrl"
    /\ BuildsRepoUrl(s1.st)
    /\ buildGitRepoUrl(s1.st.gitAccount.type, s1.st.gitAccount.username, s1.st.name)
          \notin remotes
    /\ s.repo = None

FetchesDefaultBranch(st) ==
    ~IsSet(st.branch) /\ st.gitAccount.type = "github" /\ IsSet(st.githubToken) /\ IsSet(st.name)

\* C19: whichever way addRepoUrl returns, the branch of its result is the
\* branch the record had, if it had one, and otherwise the default branch
\* GitHub gives for the name when the account is a GitHub account with a
\* token and a name (no branch when GitHub is not asked).
BranchExplicitOrDefault ==
    [][IsCall("addRepoUrl") =>
        s'.branch = IF IsSet(s.branch) THEN s.branch
                    ELSE IF FetchesDefaultBranch(s) THEN getDefaultBranch(s.name, remotes)
                    ELSE None]_vars

\* C19 witness: the record had no branch, and addRepoUrl's result has the
\* default branch of the repository found for the name.
DefaultBranchFetched ==
    /\ last.sel = "addRepoUrl"
    /\ FetchesDefaultBranch(s1.st)
    /\ s.branch = <<"main">>

Occurrences(seq, x) == Cardinality({i \in DOMAIN seq : seq[i] = x})

\* C20: addPathInfo on a record whose path has a pathInfos entry returns the
\* record as it is and probes nothing; on a path without an entry it probes
\* that path once and stores the entry; so two calls in succession on the
\* same path probe it once and leave the same entry.
PathInfoMemoized ==
    [][IsCall("addPathInfo") =>
        /\ HasPathInfo(s) => s' = s /\ steps' = steps
        /\ IsSet(s.path) /\ ~HasPathInfo(s)
           => /\ steps' = Append(steps, s.path)
              /\ HasPathInfo(s') /\ s'.path = s.path
        /\ last.sel = "addPathInfo" /\ s1.st.path = s.path /\ IsSet(s.path)
           => /\ Occurrences(steps', s.path) = 1
              /\ getPathInfo(s') = getPathInfo(s)]_vars

\* C20 witness: addPathInfo was called twice on the same path, and the path
\* was probed once.
SecondCallDidNotProbe ==
    /\ edits = 2 /\ last.sel = "addPathInfo"
    /\ IsSet(s.path) /\ s1.st = s /\ HasPathInfo(s)
    /\ steps = <<s.path>>

----------------------------------------------------------------------------
(* Properties of the paths of the wizard *)

\* C21: from step to step of the wizard a pathInfos entry stays as it is, and
\* a step adds at most the entry of its own path, which it probes then and
\* only then: a path that has an entry is never probed again.
PathInfosOnlyGrow ==
    [][Live /\ Live' =>
        /\ \A p \in DOMAIN s.pathInfos :
              p \in DOMAIN s'.pathInfos /\ s'.pathInfos[p] = s.pathInfos[p]
        /\ \A p \in DOMAIN s'.pathInfos \ DOMAIN s.pathInfos :
              p = s'.path /\ s'.pathInfos[p] = ProbePath(world, p)
        /\ s'.path \in DOMAIN s.pathInfos => s'.pathInfos = s.pathInfos]_vars

\* C21 witness: after two edits in the hub the record has the entries of two
\* paths, the last edit being a path edit.
TwoPathsProbed ==
    /\ Live /\ pc = "review" /\ edits = 2
    /\ last.sel = "path"
    /\ Cardinality(DOMAIN s.pathInfos) = 2

\* C22: when a step probes a path that had no entry, the record's monorepo is
\* true exactly when the path is in a git working tree and is not a git root.
MonorepoFollowsFirstProbe ==
    [][Live /\ Live' /\ IsSet(s'.path) /\ s'.path \notin DOMAIN s.pathInfos
          /\ HasPathInfo(s')
       => s'.monorepo = Bool(getPathInfo(s').inGitTree /\ ~getPathInfo(s').isGitRoot)]_vars

----------------------------------------------------------------------------
(* Properties of the device flow *)

Answered == poll.pc = "request" /\ poll'.pc # "request"
LastResponse == poll'.responses[Len(poll'.responses)]

\* C25: an answer of authorization_pending makes fetchToken wait the current
\* interval and retry with the same interval; an answer of slow_down makes it
\* retry with the interval of the answer, which is the interval from then on;
\* any other error fails at once with the description of the answer, and no
\* request follows a failure.
PollingFollowsTheAnswer ==
    [][/\ Answered /\ LastResponse.error = "authorization_pending" =>
             /\ poll'.pc = "wait"
             /\ poll'.waiting = poll.interval * 1000
             /\ poll'.interval = poll.interval
       /\ Answered /\ LastResponse.error = "slow_down" =>
             /\ poll'.pc = "wait"
             /\ poll'.interval = LastResponse.interval
       /\ Answered /\ LastResponse.error \notin {"", "authorization_pending", "slow_down"} =>
             /\ poll'.pc = "failed"
             /\ poll'.message = LastResponse.error_description
             /\ poll'.requests = poll.requests
       /\ poll.pc = "wait" =>
             /\ poll'.pc = "request"
             /\ poll'.requests = poll.requests + 1
             /\ poll'.interval = poll.interval
             /\ poll'.waits = Append(poll.waits, poll.waiting)
       /\ poll.pc = "failed" => poll' = poll]_vars

SlowedDownThenPending ==
    /\ poll.pc = "request"
    /\ Len(poll.responses) = 2
    /\ poll.responses[1].error = "slow_down"
    /\ poll.responses[2].error = "authorization_pending"
    /\ poll.interval = poll.responses[1].interval
    /\ poll.interval # poll.first
    /\ poll.waits[2] = poll.responses[1].interval * 1000

PendingUntilSuccess ==
    /\ poll.pc = "returned"
    /\ \A i \in 1..(Len(poll.responses) - 1) :
          poll.responses[i].error = "authorization_pending"

\* C26: when the endpoint answers authorization_pending n times and then
\* succeeds, fetchToken has sent n+1 requests, has waited n times the interval
\* it was called with, and returns the token of the last answer.
PendingCostsOneWaitEach ==
    PendingUntilSuccess =>
        LET n == Len(poll.responses) - 1
        IN  /\ poll.requests = n + 1
            /\ poll.waits = [i \in 1..n |-> poll.first * 1000]
            /\ poll.accessToken = poll.responses[n + 1].access_token
            /\ poll.accessToken # None

ReturnedAfterTwoPending ==
    /\ PendingUntilSuccess
    /\ Len(poll.responses) = 3
    /\ poll.requests = 3

----------------------------------------------------------------------------
(* Properties of the GitHub client *)

Sent(method, path) ==
    { i \in 1..Len(requests) : requests[i].method = method /\ requests[i].path = path }
SentWith(method, path, accessToken) ==
    { i \in Sent(method, path) : requests[i].accessToken = accessToken }
Evictions == { c \in Callers : callers[c].posted }
Finished(c) == callers[c].pc \in {"returned", "threw"}
SameOutcome(a, b) ==
    /\ callers[a].pc = callers[b].pc
    /\ callers[a].userInfo = callers[b].userInfo
    /\ callers[a].repos = callers[b].repos
    /\ callers[a].message = callers[b].message

\* C23: however the calls interleave, one GET /user is sent for each token and
\* every getUserInfo call with that token ends the same way; one
\* GET /user/repos is sent for each user until createGithubRepo evicts the
\* entry (one more for each eviction), and until then every getUserRepos call
\* of that user ends the same way.
OneRequestPerCacheKey ==
    /\ \A accessToken \in ServiceTokens :
          Cardinality(SentWith("GET", "/user", accessToken)) <= 1
    /\ Cardinality(Sent("GET", "/user/repos")) = Len(repoPromises)
    /\ Len(repoPromises) <= 1 + Cardinality(Evictions)
    /\ \A a, b \in Callers :
          /\ Finished(a) /\ Finished(b)
          /\ callers[a].fn = callers[b].fn
          /\ \/ /\ callers[a].fn = "getUserInfo"
                /\ callers[a].accessToken = callers[b].accessToken
             \/ /\ callers[a].fn = "getUserRepos"
                /\ Evictions = {}
                /\ callers[a].userInfo.name # None
                /\ callers[a].userInfo.name = callers[b].userInfo.name
          => SameOutcome(a, b)

TwoCallersOnePromiseInFlight ==
    /\ callers[1].fn = "getUserRepos" /\ callers[2].fn = "getUserRepos"
    /\ callers[1].accessToken # callers[2].accessToken
    /\ callers[1].pc = "awaitRepos" /\ callers[2].pc = "awaitRepos"
    /\ callers[1].awaits = 1 /\ callers[2].awaits = 1
    /\ repoPromises[1].state = "pending"
    /\ Cardinality(Sent("GET", "/user/repos")) = 1

Lists(repos, name) == \E i \in DOMAIN repos : repos[i].name = name
PostAnswered(c) == callers[c].pc = "awaitPost" /\ callers'[c].pc # "awaitPost"

\* C24: when the answer to the POST is not 201, createGithubRepo throws and
\* the caches are as they were; when it is 201, the entry of the user is gone
\* from reposByName, so the getUserRepos call that follows sends a request of
\* its own and createGithubRepo ends with a list that has the new repository.
CreateEvictsOnlyOnSuccess ==
    /\ [](\A c \in Callers :
            callers[c].posted /\ callers[c].pc = "returned" =>
                /\ Lists(callers[c].repos, callers[c].name)
                /\ repoPromises[callers[c].awaits].value = callers[c].repos)
    /\ [][\A c \in Callers : PostAnswered(c) =>
            IF callers'[c].pc = "threw"
            THEN /\ callers'[c].message = "Failed to create repo"
                 /\ ~callers'[c].posted
                 /\ reposByName' = reposByName
                 /\ repoPromises' = repoPromises
                 /\ userInfoByToken' = userInfoByToken
                 /\ requests' = requests
                 /\ remotes' = remotes
            ELSE /\ callers'[c].posted
                 /\ reposByName'[callers[c].userInfo.name] = 0
                 /\ repoPromises' = repoPromises
                 /\ GithubUrl(callers[c].userInfo.name, callers[c].name) \in remotes']_vars

CreatedAfterAListWasCached ==
    /\ callers[1].fn = "getUserRepos" /\ callers[1].pc = "returned"
    /\ ~Lists(callers[1].repos, <<"pkg">>)
    /\ callers[2].fn = "createGithubRepo" /\ callers[2].pc = "returned"
    /\ callers[2].name = <<"pkg">>
    /\ Lists(callers[2].repos, <<"pkg">>)
    /\ Cardinality(Sent("GET", "/user/repos")) = 2

----------------------------------------------------------------------------
(* Properties of the end of the wizard *)

\* C27: when the device flow of the wizard has given a token, the hosts file
\* of the GitHub CLI holds that token.
TokenStoredAfterLogin ==
    [][pc = "deviceFlow" /\ pc' = "repoUrl" =>
          /\ IsSet(s'.githubToken)
          /\ credentials'.accessToken = s'.githubToken]_vars

GeneratorCalled == generated' # generated
Received == generated'[Len(generated')]

\* C28: the generator is called at most once in a run, only when the review
\* hub has returned through 'create', and with the values of the record the
\* hub returned: name, path, type, description, the author fields, the
\* package manager, gitOrigin = repo, gitBranch = branch and disableGitRepo =
\* monorepo; the record does not change between the return and the call.
GeneratorGetsTheFinalRecord ==
    /\ [](Len(generated) <= 1)
    /\ [][GeneratorCalled =>
            /\ generated = <<>>
            /\ Len(generated') = 1
            /\ pc = "review" /\ last'.sel = "create"
            /\ ~hub.createDisabled /\ CreateReturns(s, hub)
            /\ s' = s
            /\ Received.name = s.name
            /\ Received.path = s.path
            /\ Received.type = s.type
            /\ Received.description = s.description
            /\ Received.authorName = s.authorName
            /\ Received.authorEmail = s.authorEmail
            /\ Received.packageManager = s.packageManager
            /\ Received.gitOrigin = s.repo
            /\ Received.gitBranch = s.branch
            /\ Received.disableGitRepo = s.monorepo]_vars

GeneratedAfterAnEdit ==
    /\ pc = "done" /\ Len(generated) = 1 /\ edits = 2
    /\ generated[1].gitOrigin = s.repo /\ IsSet(s.repo)
    /\ generated[1].disableGitRepo = s.monorepo

----------------------------------------------------------------------------
(* Properties of the search *)

Normalized(name) == SelectSeq(toLowerCase(name), LAMBDA c : c \notin NonAlnum)
Matching == { i \in DOMAIN search.haystack :
                 Includes(Normalized(search.haystack[i]), Normalized(search.needle)) }
NormalizedEqual == { i \in Matching :
                        Normalized(search.haystack[i]) = Normalized(search.needle) }
Least(S) == CHOOSE i \in S : \A j \in S : i <= j

\* C29: trashSearch returns nothing exactly when no entry of the haystack,
\* lowercased and stripped of what is not a letter or a digit, contains the
\* needle treated the same way. Otherwise it returns an entry as it stands in
\* the haystack: the needle itself when an entry equals it, else the first
\* entry whose normalized form is the normalized needle, else the first
\* entry that matches. So searching a name in the list of that name alone
\* returns the name.
SearchPrefersExactMatches ==
    search.returned =>
        /\ search.result = None <=> Matching = {}
        /\ Matching # {} =>
              IF \E i \in DOMAIN search.haystack : search.haystack[i] = search.needle
              THEN search.result = search.needle
              ELSE IF NormalizedEqual # {}
              THEN search.result = search.haystack[Least(NormalizedEqual)]
              ELSE search.result = search.haystack[Least(Matching)]
        /\ search.haystack = <<search.needle>> => search.result = search.needle

ExactMatchAfterTwoOthers ==
    /\ search.returned
    /\ search.needle = <<"pkg">>
    /\ search.haystack = << <<"my", "-", "pkg">>, <<"Pkg">>, <<"pkg">> >>
    /\ search.result = <<"pkg">>

----------------------------------------------------------------------------
(* Properties of the monorepo step *)

MonorepoAnswered(monorepo) ==
    /\ Live /\ Live' /\ pc = "review" /\ HasPathInfo(s)
    /\ edits' = edits + 1
    /\ last'.sel = "monorepo" /\ last'.answer = Bool(monorepo)

\* The record is a monorepo package whose repo is the origin of the enclosing
\* repository, found when the path was probed.
BorrowedOrigin ==
    /\ s.monorepo = Bool(TRUE)
    /\ getPathInfo(s).inGitTree /\ ~getPathInfo(s).isGitRoot
    /\ IsSet(s.repo) /\ s.repo = getPathInfo(s).gitOrigin

\* C30: the monorepo step answered with yes on a record without repo gives
\* the record the origin found at the first existing ancestor of the path;
\* answered with no on a monorepo record whose repo is the origin borrowed
\* from the enclosing repository, it unsets repo (and then asks for one).
MonorepoStepKeepsRepoConsistent ==
    [][/\ MonorepoAnswered(TRUE) /\ ~IsSet(s.repo) /\ IsSet(ParsedOrigin(s, world))
            => s'.repo = ParsedOrigin(s, world)
       /\ MonorepoAnswered(FALSE) /\ BorrowedOrigin
            => \/ s'.repo = None
               \/ last'.ran = <<"selectMonorepo", "selectOrigin">>]_vars

----------------------------------------------------------------------------
(* Properties of the startup fan-out *)

JoinedNow == pc = "start" /\ pc' = "name"

\* C31: main goes on to the name prompt only when the identity inference, the
\* package-manager detection and the type prompt have all completed, and the
\* record it goes on with is made of the three results whatever the order
\* they completed in: type is the answer of the type prompt, packageManager is
\* the detected one, and every other field is as the identity inference left
\* it.
JoinMergesDisjointFields ==
    [][JoinedNow =>
          /\ authorSettings.stage = "done" /\ s1.done /\ packageManagerSettings.done
          /\ s1.st = selectType(InitialSettings, s1.st.type)
          /\ s'.type = s1.st.type
          /\ s'.packageManager = packageManagerSettings.packageManager
          /\ \A field \in DOMAIN s' \ {"type", "packageManager"} :
                s'[field] = authorSettings.st[field]]_vars

JoinedWithPromptedType ==
    /\ pc = "name"
    /\ s.type = <<"application">>
    /\ s.packageManager = <<"pnpm">>
    /\ IsSet(s.authorName)
    /\ s.gitAccount.type = "github"

----------------------------------------------------------------------------
(* Properties of the single steps *)

\* selectName has run, as the forced step of main or as an edit of the hub.
NameAnswered ==
    /\ Live /\ Live'
    /\ last'.ran = <<"selectName">>
    /\ \/ pc = "name" /\ pc' = "description"
       \/ pc = "review" /\ edits' = edits + 1 /\ last'.sel = "name"

\* C32: selectName on a record whose path was not set explicitly derives the
\* path from the new name, "." when the normalized name is the normalized
\* basename of the invoke directory and the normalized name otherwise,
\* whatever path was inferred before, and the new path has gone through
\* addPathInfo: when it is not empty it has its entry in pathInfos, the
\* result of probing it.
NameRederivesPath ==
    [][NameAnswered /\ ~s.explicitPath =>
          LET name == last'.answer
              derived == IF normalizeString(AbsBasename(InvokeDirectory)) = normalizeString(name)
                         THEN <<".">> ELSE normalizeString(name)
          IN  /\ s'.name = name
              /\ s'.path = derived
              /\ ~s'.explicitPath
              /\ IsSet(derived) =>
                    /\ derived \in DOMAIN s'.pathInfos
                    /\ s'.pathInfos[derived] = ProbePath(world, derived)]_vars

InferredPathReplaced ==
    /\ Live /\ pc = "review" /\ last.sel = "name" /\ edits = 1
    /\ ~s.explicitPath
    /\ s.name = <<"proj">> /\ s.path = <<".">>
    /\ Cardinality(DOMAIN s.pathInfos) = 2

\* The field each of the four steps is about.
OwnField ==
    [type |-> <<"selectType">>, description |-> <<"selectDescription">>,
     authorName |-> <<"selectAuthorName">>, packageManager |-> <<"selectPackageManager">>]

\* The hub ran the step of that field on the record.
Edited(field) ==
    /\ Live /\ Live' /\ pc = "review"
    /\ edits' = edits + 1
    /\ last'.sel = field /\ last'.ran = OwnField[field]

OnlyChanged(before, after, field, answer) ==
    /\ after[field] = answer
    /\ \A other \in DOMAIN after \ {field} : after[other] = before[other]

\* C33: selectType, selectDescription, selectAuthorName and
\* selectPackageManager, as forced steps and as edits of the hub, set their
\* own field to the answer (authorName unset for an empty answer) and leave
\* every other field of the record as it was.
SimpleStepsChangeOwnFieldOnly ==
    [][/\ \A field \in DOMAIN OwnField :
             Edited(field) =>
                 OnlyChanged(s, s', field,
                             IF field = "authorName" /\ last'.answer = <<>> THEN None
                             ELSE last'.answer)
       /\ Live /\ Live' /\ pc = "description" /\ pc' = "account" =>
             OnlyChanged(s, s', "description", last'.answer)
       /\ Live /\ Live' /\ ~s1.done /\ s1'.done =>
             OnlyChanged(s1.st, s1'.st, "type", last'.answer)]_vars

PackageManagerEditedWithRepoSet ==
    /\ Live /\ pc = "review" /\ edits = 2
    /\ last.sel = "packageManager" /\ last.answer = <<"yarn">>
    /\ last.ran = <<"selectPackageManager">>
    /\ s.packageManager = <<"yarn">>
    /\ IsSet(s.repo) /\ IsSet(s.description) /\ s.monorepo = Bool(TRUE)

----------------------------------------------------------------------------
(* Properties of the lookups *)

RECURSIVE FirstPresent(_)
FirstPresent(sources) ==
    IF sources = <<>> THEN None
    ELSE IF Head(sources) # None THEN Head(sources)
    ELSE FirstPresent(Tail(sources))

\* The name of the GitHub profile, None when there is no token or the lookup
\* of the profile fails.
ProfileName ==
    IF credentials.accessToken = None THEN None
    ELSE UserInfoOf(credentials.accessToken).name

\* C34: addAuthorInfo and addPathInfo return a record whatever lookup fails.
\* A git config lookup that fails leaves gitEmail unset and the git name out
\* of the chains, a profile lookup that fails leaves the profile name out,
\* and the author name is the first source that is left; a path outside a
\* work tree gets inGitTree = false and no gitOrigin, a work tree without
\* remote gets no gitOrigin, and repo stays as it was.
FailedLookupsAreAbsent ==
    [][/\ IsCall("addAuthorInfo") =>
            LET gitName  == last'.answer[1]
                gitEmail == last'.answer[2]
                osUser   == last'.answer[3]
            IN  /\ pc' = "resolvers" /\ Live'
                /\ s'.gitEmail = gitEmail
                /\ s'.osUsername = osUser
                /\ s'.authorEmail = FirstPresent(<<s.authorEmail, gitEmail>>)
                /\ s'.gitUsername = FirstPresent(<<ProfileName, credentials.user, gitName>>)
                /\ s'.githubUsername = FirstPresent(<<ProfileName, credentials.user>>)
                /\ s'.authorName = FirstPresent(<<s.authorName, ProfileName, credentials.user,
                                                  gitName, osUser>>)
                /\ s'.githubToken = credentials.accessToken
       /\ IsCall("addPathInfo") /\ ~HasPathInfo(s) =>
            /\ pc' = "resolvers" /\ Live'
            /\ HasPathInfo(s')
            /\ LET info == getPathInfo(s')
               IN  /\ world.gitRoot = None => ~info.inGitTree /\ info.gitOrigin = None
                   /\ world.origin = None => info.gitOrigin = None
                   /\ info.gitOrigin = None => s'.repo = s.repo]_vars

EveryLookupFailed ==
    /\ edits = 2 /\ last.sel = "addAuthorInfo"
    /\ world = NoRemote /\ credentials = BrokenTokenCredentials
    /\ last.answer[1] = None /\ last.answer[2] = None
    /\ HasPathInfo(s) /\ getPathInfo(s).inGitTree /\ getPathInfo(s).gitOrigin = None
    /\ s.authorName = <<"al">> /\ s.authorEmail = None
    /\ s.githubToken = <<"tokX">> /\ s.githubUsername = None /\ s.repo = None

----------------------------------------------------------------------------
(* Properties of the polling without a limit *)

PollingEnded == poll.pc \in {"returned", "failed"}

\* C35: fetchToken ends, with a token or with a failure, only in the step in
\* which the endpoint answers with something other than authorization_pending
\* or slow_down; until then every wait is followed by another request,
\* however many there have been, so with an endpoint that answers
\* authorization_pending for ever it polls for ever.
PollsUntilAnswered ==
    /\ [][~PollingEnded /\ PollingEnded' =>
             /\ poll.pc = "request"
             /\ Len(poll'.responses) = Len(poll.responses) + 1
             /\ LastResponse.error \notin {"authorization_pending", "slow_down"}]_vars
    /\ (poll.pc = "wait") ~> (poll.pc = "request")

StillPollingBeyondTheCount ==
    /\ poll.pc = "wait" /\ poll.requests = MaxRequests
    /\ Len(poll.responses) = MaxRequests - 1
    /\ \A i \in DOMAIN poll.responses : poll.responses[i].error = "authorization_pending"

----------------------------------------------------------------------------
(* Properties of the path entry *)

\* C36: after the forced selectName, and whenever the review hub is open
\* (on entry and after every selectName and selectPath of the hub), the
\* record has a path and pathInfos has the entry of that path.
PathProbedWheneverNeeded ==
    Live /\ pc \in {"description", "review"} => HasPathInfo(s)

----------------------------------------------------------------------------
(* Properties of the repository steps *)

\* C37: the monorepo step answered with no keeps a repo that is not the
\* origin of the enclosing repository.
NoKeepsOwnRepo ==
    [][/\ MonorepoAnswered(FALSE)
       /\ IsSet(s.repo)
       /\ s.repo # getPathInfo(s).gitOrigin
       /\ s.repo # ParsedOrigin(s, world)
       => s'.repo = s.repo]_vars

----------------------------------------------------------------------------
(* Properties of selectOrigin's nested prompts *)

\* selectOrigin showed the prompt of the description in its last call.
DescriptionAsked ==
    /\ last.sel = "selectOrigin"
    /\ \E i \in 1..Len(last.ran) : last.ran[i] = "description"

\* C38: when selectOrigin asked for the missing description before creating the
\* repository, the description entered there is the one createGithubRepo was
\* called with, and it is in the record selectOrigin returns.
EnteredDescriptionIsUsed ==
    DescriptionAsked /\ IsSet(last.answer[3]) =>
        /\ [name |-> ParsedRepoName(last.answer[1]), description |-> last.answer[3]] \in createCalls
        /\ (exit = "running" => s.description = last.answer[3])

\* C39: createGithubRepo is called, and a repository appears on GitHub, only in
\* a call of selectOrigin in which the liveness check of the entered URL
\* failed, the record had a githubToken, the entered URL was the SSH URL built
\* for the record's githubUsername, and the user confirmed the creation.
CreatesOnlyWhenConfirmed ==
    [][createCalls' # createCalls \/ remotes' # remotes =>
          /\ last'.sel = "selectOrigin"
          /\ last'.answer[1] \notin remotes
          /\ ~hub'.repoExists
          /\ IsSet(s.githubToken)
          /\ last'.answer[1] = buildGitRepoUrl("github", s.githubUsername,
                                               ParsedRepoName(last'.answer[1]))
          /\ last'.answer[2] = Bool(TRUE)]_vars

RepositoryCreatedAfterConfirmation ==
    /\ last.sel = "selectOrigin"
    /\ last.answer[2] = Bool(TRUE)
    /\ createCalls # {}
    /\ last.answer[1] \in remotes \ InitialRemotes
    /\ exit = "running"

----------------------------------------------------------------------------
(* Properties of the failed requests of the GitHub client *)

UserInfoFailed(accessToken) == userInfoByToken[accessToken].state = "rejected"
ReposFailed(name) ==
    reposByName[name] # 0 /\ repoPromises[reposByName[name]].state = "rejected"
CreatedBy(c, name) ==
    PostAnswered(c) /\ callers'[c].posted /\ callers[c].userInfo.name = name

\* C40: a rejected promise of getUserInfo stays in userInfoByToken and a
\* rejected promise of getUserRepos stays in reposByName: no further GET is
\* sent for that token or that user, and every call that finishes on the
\* rejected promise throws the same error. An entry of reposByName is removed
\* only by a createGithubRepo whose POST was answered with 201.
FailuresStayCached ==
    /\ [](\A c \in Callers :
            /\ callers[c].pc # "idle" /\ UserInfoFailed(callers[c].accessToken) =>
                  /\ Cardinality(SentWith("GET", "/user", callers[c].accessToken)) = 1
                  /\ callers[c].pc \in {"awaitUserInfo", "threw"}
                  /\ callers[c].pc = "threw" => callers[c].message = "Failed to get user info"
            /\ callers[c].awaits # 0 /\ repoPromises[callers[c].awaits].state = "rejected"
                  => /\ callers[c].pc \in {"awaitRepos", "threw"}
                     /\ callers[c].pc = "threw" => callers[c].message = "Failed to get user repos")
    /\ [][\A accessToken \in ServiceTokens :
            UserInfoFailed(accessToken) =>
                /\ userInfoByToken'[accessToken] = userInfoByToken[accessToken]
                /\ SentWith("GET", "/user", accessToken)' = SentWith("GET", "/user", accessToken)]_vars
    /\ [][\A name \in UserNames :
            /\ ReposFailed(name) /\ ~(\E c \in Callers : CreatedBy(c, name)) =>
                  /\ ReposFailed(name)'
                  /\ reposByName'[name] = reposByName[name]
                  /\ Sent("GET", "/user/repos")' = Sent("GET", "/user/repos")
                  /\ \A c \in Callers :
                        callers[c].pc = "awaitUserInfo" /\ callers'[c].pc = "awaitRepos"
                            => callers'[c].awaits = reposByName[name]
            /\ reposByName[name] # 0 /\ reposByName'[name] # reposByName[name] =>
                  /\ reposByName'[name] = 0
                  /\ \E c \in Callers : CreatedBy(c, name)]_vars

BothFailuresServedAgain ==
    /\ callers[1].fn = "getUserInfo" /\ callers[1].accessToken = <<"tokX">>
    /\ callers[1].pc = "threw"
    /\ callers[2].fn = "getUserRepos" /\ callers[2].accessToken = <<"tokA">>
    /\ callers[2].pc = "threw" /\ callers[2].message = "Failed to get user repos"
    /\ callers[3].fn = "getUserRepos" /\ callers[3].accessToken = <<"tokA">>
    /\ callers[3].pc = "threw" /\ callers[3].message = "Failed to get user repos"
    /\ callers[3].awaits = callers[2].awaits
    /\ Len(requests) = 3

=============================================================================
